---- MODULE Spec2Model ----
(***************************************************************************)
(* A model of pdfstamp/sign.py: the incremental PDF signing engine.        *)
(*                                                                         *)
(* Bytes are one-character strings.  A stream (io.BytesIO) is a record     *)
(*   [base |-> n, tag |-> t, data |-> s, pos |-> p]                        *)
(* whose first n bytes are the bytes of the previous revision of the       *)
(* document (kept opaque: the signing code never looks inside them; t      *)
(* names their content) and whose following bytes are the sequence s; the  *)
(* byte data[i] lives at file offset base + i - 1.                         *)
(***************************************************************************)
EXTENDS Integers, Sequences, FiniteSets, TLC

VARIABLES
    stream,      \* the output stream (io.BytesIO)
    byte_range,  \* the SigByteRangeObject's fields
    brlog,       \* SpecBR: what the last placeholder operation did
    date_in,     \* SpecDate: the datetime handed to pdf_date
    date_out,    \* SpecDate: what pdf_date returned
    pc,          \* where the sign_pdf call (and its caller) stands
    inp,         \* the arguments of the call and the input document
    writer,      \* the IncrementalPdfFileWriter: heap and update registry
    sp,          \* sign_pdf's local variables (SpecEnum: the generator's events)
    contents,    \* the PKCS7Placeholder's fields
    hashed,      \* the messages digested so far
    tsa,         \* the timestamp request in flight and its reply
    status,      \* what validate_signature returned
    tampered     \* the byte changed after signing, if any

signVars == <<pc, inp, writer, sp, contents, hashed, tsa, status,
              tampered>>

vars == <<stream, byte_range, brlog, date_in, date_out, pc, inp, writer,
          sp, contents, hashed, tsa, status, tampered>>

(***************************************************************************)
(* Text formatting, as Python's % operator does it.                        *)
(***************************************************************************)
Digits == <<"0", "1", "2", "3", "4", "5", "6", "7", "8", "9">>

DigitChar(d) == Digits[d + 1]

IsDigit(c) == \E d \in 0..9 : c = DigitChar(d)

DigitVal(c) == CHOOSE d \in 0..9 : c = DigitChar(d)

RECURSIVE DecDigits(_)
DecDigits(n) ==
    IF n < 10 THEN <<DigitChar(n)>>
    ELSE DecDigits(n \div 10) \o <<DigitChar(n % 10)>>

Repeat(c, n) == [i \in 1..n |-> c]

\* "%0<w>d" % n for n >= 0: at least w characters, never truncated
ZeroPad(n, w) ==
    LET s == DecDigits(n)
    IN  IF Len(s) >= w THEN s ELSE Repeat("0", w - Len(s)) \o s

RECURSIVE Pow10(_)
Pow10(k) == IF k = 0 THEN 1 ELSE 10 * Pow10(k - 1)

(***************************************************************************)
(* Streams.                                                                *)
(***************************************************************************)
StreamLen(s) == s.base + Len(s.data)

\* stream.write(bytes) at the current position: overwrite, then extend
StreamWrite(s, bytes) ==
    LET i0 == s.pos - s.base      \* index before the first written byte
        n  == Len(bytes)
        newLen == IF i0 + n > Len(s.data) THEN i0 + n ELSE Len(s.data)
    IN  [s EXCEPT
            !.data = [i \in 1..newLen |->
                        IF i > i0 /\ i <= i0 + n THEN bytes[i - i0]
                        ELSE s.data[i]],
            !.pos = s.pos + n]

StreamSeek(s, p) == [s EXCEPT !.pos = p]

\* the bytes of the stream at offsets [lo, lo + n), clipped to the data part
StreamBytes(s, lo, n) ==
    LET a == IF lo - s.base < 0 THEN 0 ELSE lo - s.base
        b == IF lo + n - s.base > Len(s.data) THEN Len(s.data)
             ELSE lo + n - s.base
    IN  IF b <= a THEN <<>> ELSE SubSeq(s.data, a + 1, b)

(***************************************************************************)
(* SigByteRangeObject (sign.py 56-93).                                     *)
(***************************************************************************)
NoOffset == -1

ByteRangeDigits == 8

ByteRangeLimit == Pow10(ByteRangeDigits)

SigByteRangeObject ==
    [_filled |-> FALSE, _range_object_offset |-> NoOffset,
     first_region_len |-> 0, second_region_offset |-> 0,
     second_region_len |-> 0]

\* "[ %08d %08d %08d %08d ]" % (0, l1, o2, l2)
ByteRangeReprTight(obj) ==
    <<"[">> \o ZeroPad(0, ByteRangeDigits)
        \o <<" ">> \o ZeroPad(obj.first_region_len, ByteRangeDigits)
        \o <<" ">> \o ZeroPad(obj.second_region_offset, ByteRangeDigits)
        \o <<" ">> \o ZeroPad(obj.second_region_len, ByteRangeDigits)
        \o <<"]">>
ByteRangeRepr(obj) ==
    <<"[", " ">> \o ZeroPad(0, ByteRangeDigits)
        \o <<" ">> \o ZeroPad(obj.first_region_len, ByteRangeDigits)
        \o <<" ">> \o ZeroPad(obj.second_region_offset, ByteRangeDigits)
        \o <<" ">> \o ZeroPad(obj.second_region_len, ByteRangeDigits)
        \o <<" ", "]">>

\* SigByteRangeObject.write_to_stream: [obj, stream] afterwards
BR_write_to_stream(obj, s) ==
    LET obj1 == IF obj._range_object_offset = NoOffset
                THEN [obj EXCEPT !._range_object_offset = s.pos]
                ELSE obj
    IN  [obj |-> obj1, stream |-> StreamWrite(s, ByteRangeRepr(obj1))]

\* SigByteRangeObject.fill_offsets: [obj, stream, err] afterwards
BR_fill_offsets(obj, s, sig_start, sig_end, eof) ==
    IF obj._filled
    THEN [obj |-> obj, stream |-> s, err |-> "Offsets already filled"]
    ELSE IF obj._range_object_offset = NoOffset
    THEN [obj |-> obj, stream |-> s, err |-> "Could not determine offset"]
    ELSE
        LET old_seek == s.pos
            obj1 == [obj EXCEPT !.first_region_len = sig_start,
                                !.second_region_offset = sig_end,
                                !.second_region_len = eof - sig_end]
            w == BR_write_to_stream(
                    obj1, StreamSeek(s, obj1._range_object_offset))
        IN  [obj |-> w.obj, stream |-> StreamSeek(w.stream, old_seek),
             err |-> "none"]

(***************************************************************************)
(* pdf_date (sign.py 32-53).  A datetime is a record of its calendar       *)
(* fields and, when it is timezone-aware, its UTC offset in minutes        *)
(* (tz = TRUE).                                                            *)
(***************************************************************************)
SecondsPerDay == 24 * 3600

\* timedelta(seconds = s).seconds: timedelta normalises to
\* days = floor(s / 86400) and 0 <= seconds < 86400
TimedeltaSeconds(s) == s % SecondsPerDay

\* dt.strftime("D:%Y%m%d%H%M%S")
StrfTime(dt) ==
    <<"D", ":">> \o ZeroPad(dt.year, 4) \o ZeroPad(dt.month, 2)
        \o ZeroPad(dt.day, 2) \o ZeroPad(dt.hour, 2)
        \o ZeroPad(dt.minute, 2) \o ZeroPad(dt.second, 2)

Abs(x) == IF x < 0 THEN -x ELSE x

\* dt.utcoffset().seconds
UtcOffsetSeconds(dt) == TimedeltaSeconds(dt.off * 60)

pdf_date(dt) ==
    LET base_dt == StrfTime(dt)
        tz0 == UtcOffsetSeconds(dt)
        sign == IF tz0 < 0 THEN "-" ELSE "+"
        tz1 == IF tz0 < 0 THEN Abs(tz0) ELSE tz0
        hrs == tz1 \div 3600
        mins == (tz1 % 3600) \div 60
        utc_offset_string ==
            IF ~dt.tz THEN <<>>
            ELSE IF tz0 = 0 THEN <<"Z">>
            ELSE <<sign>> \o ZeroPad(hrs, 2) \o <<"'">>
                    \o ZeroPad(mins, 2) \o <<"'">>
    IN  base_dt \o utc_offset_string

(***************************************************************************)
(* PKCS7Placeholder (sign.py 96-123).                                      *)
(***************************************************************************)
None == -1

DefaultReserved == 8192

\* PKCS7Placeholder.__init__: value = b'0' * (bytes_reserved or 8192)
PKCS7Placeholder(bytes_reserved) ==
    [value |-> Repeat("0", IF bytes_reserved = None \/ bytes_reserved = 0
                           THEN DefaultReserved ELSE bytes_reserved),
     _offsets |-> <<>>]

\* the variant that records the end before the closing '>' is written
PK_write_to_stream_before_gt(obj, s) ==
    LET start == s.pos
        s0 == StreamWrite(StreamWrite(s, <<"<">>), obj.value)
        end == s0.pos
    IN  [obj |-> IF obj._offsets = <<>>
                 THEN [obj EXCEPT !._offsets = <<start, end>>] ELSE obj,
         stream |-> StreamWrite(s0, <<">">>)]
\* PKCS7Placeholder.write_to_stream: [obj, stream] afterwards
PK_write_to_stream(obj, s) ==
    LET start == s.pos
        s1 == StreamWrite(StreamWrite(StreamWrite(s, <<"<">>), obj.value),
                          <<">">>)
        end == s1.pos
    IN  [obj |-> IF obj._offsets = <<>>
                 THEN [obj EXCEPT !._offsets = <<start, end>>] ELSE obj,
         stream |-> s1]

(***************************************************************************)
(* PDF values and the object heap.  Every dictionary and array lives in    *)
(* the heap under an id; a value that refers to one is either an indirect  *)
(* reference (generic.IndirectObject, ind = TRUE) or the object itself     *)
(* embedded in its container (ind = FALSE).  Python's aliasing is kept:    *)
(* changing a heap object changes it for every holder.                     *)
(***************************************************************************)
Absent    == [k |-> "absent", id |-> 0, ind |-> FALSE, s |-> ""]
Ref(i)    == [k |-> "ref", id |-> i, ind |-> TRUE, s |-> ""]
Direct(i) == [k |-> "ref", id |-> i, ind |-> FALSE, s |-> ""]
Num(n)    == [k |-> "num", id |-> n, ind |-> FALSE, s |-> ""]
Name(t)   == [k |-> "name", id |-> 0, ind |-> FALSE, s |-> t]
Str(t)    == [k |-> "str", id |-> 0, ind |-> FALSE, s |-> t]

IsIndirect(v) == v.k = "ref" /\ v.ind

\* a dictionary holds the keys whose value is not Absent
Prune(f) == [key \in {x \in DOMAIN f : f[x] # Absent} |-> f[key]]

Dict(f) == [kind |-> "dict", d |-> Prune(f), items |-> <<>>]

DictionaryObject == Dict(<<>>)

ArrayObject(items) == [kind |-> "array", d |-> <<>>, items |-> items]

\* a heap cell no object of the document uses
Free == [kind |-> "free", d |-> <<>>, items |-> <<>>]

Get(obj, key) == IF key \in DOMAIN obj.d THEN obj.d[key] ELSE Absent

\* the catalog is object 1
RootId == 1

\* the writer: its heap, the ids in use, and what the update will contain
\*   added: registered with add_object; updated: mark_update / update_root
New(w, obj) == [w EXCEPT !.objs = Append(@, obj)]
NewId(w) == Len(w.objs) + 1

add_object(w, id) == [w EXCEPT !.added = @ \cup {id}]

mark_update(w, ref) == [w EXCEPT !.updated = @ \cup {ref.id}]

update_root(w) == [w EXCEPT !.updated = @ \cup {RootId}]

SetKey(w, id, key, val) ==
    [w EXCEPT !.objs[id].d =
        Prune([x \in DOMAIN @ \cup {key} |-> IF x = key THEN val ELSE @[x]])]
DelKey(w, id, key) == SetKey(w, id, key, Absent)
ArrayAppend(w, id, val) == [w EXCEPT !.objs[id].items = @ \o <<val>>]

(***************************************************************************)
(* enumerate_sig_fields_in (sign.py 764-795).  The generator is modelled   *)
(* by the sequence of its events: the tuples it yields, ended by a "raise" *)
(* event when the iteration would throw.  NoFilter stands for None.        *)
(***************************************************************************)
NoFilter == "<None>"

YieldEv(name, value, ref) ==
    [ev |-> "yield", name |-> name, value |-> value, ref |-> ref]
RaiseEv(what) ==
    [ev |-> "raise", name |-> what, value |-> Absent, ref |-> Absent]

Raises(evs) == evs # <<>> /\ evs[Len(evs)].ev = "raise"

\* the events of one generator followed by those of what runs after it
Then(evs, more) == IF Raises(evs) THEN evs ELSE evs \o more

RECURSIVE enumerate_sig_fields_in(_, _, _, _)
enumerate_sig_fields_in(h, field_list, filled_status, with_name) ==
    IF field_list = <<>> THEN <<>>
    ELSE
    LET field_ref == Head(field_list)
        rest == enumerate_sig_fields_in(h, Tail(field_list), filled_status,
                                        with_name)
    IN  IF ~IsIndirect(field_ref) THEN <<RaiseEv("AssertionError")>>
        ELSE
        LET field == h[field_ref.id]
            field_name == Get(field, "/T")
        IN  IF field_name = Absent THEN rest
            ELSE IF Get(field, "/FT") # Name("/Sig")
            THEN IF with_name # NoFilter /\ field_name.s = with_name
                 THEN <<RaiseEv("exists but is not a signature field")>>
                 ELSE rest
            ELSE
            LET field_value == Get(field, "/V")
                filled == field_value # Absent
                status_check ==
                    filled_status = NoFilter
                    \/ filled = (filled_status = "True")
                name_check == with_name = NoFilter \/ with_name = field_name.s
                own == IF status_check /\ name_check
                       THEN <<YieldEv(field_name.s, field_value, field_ref)>>
                       ELSE <<>>
                kids == IF Get(field, "/Kids") = Absent THEN <<>>
                        ELSE enumerate_sig_fields_in(
                                h, h[Get(field, "/Kids").id].items,
                                NoFilter, NoFilter)
            IN  Then(Then(own, kids), rest)

\* enumerate_sig_fields (sign.py 740-761) over the catalog of heap h
enumerate_sig_fields(h, filled_status) ==
    LET root == h[RootId]
    IN  IF Get(root, "/AcroForm") = Absent THEN <<>>
        ELSE LET form == h[Get(root, "/AcroForm").id]
             IN  IF Get(form, "/Fields") = Absent THEN <<>>
                 ELSE enumerate_sig_fields_in(
                        h, h[Get(form, "/Fields").id].items, filled_status,
                        NoFilter)

(***************************************************************************)
(* SignatureFormField.__init__ (sign.py 266-306): the writer afterwards;   *)
(* the new field is object NewId(w).  box is TRUE for a visible field.     *)
(***************************************************************************)
FlagPrint == 4

FlagPrintLocked == 132

SignatureFormField(w, field_name, include_on_page, sig_object_ref, box) ==
    LET flags == IF sig_object_ref = Absent THEN FlagPrint
                 ELSE FlagPrintLocked
        self == Dict("/FT" :> Name("/Sig") @@
                     "/T" :> Str(field_name) @@
                     "/Type" :> Name("/Annot") @@
                     "/Subtype" :> Name("/Widget") @@
                     "/F" :> Num(flags) @@
                     "/P" :> include_on_page @@
                     "/Rect" :> (Num(IF box THEN 1 ELSE 0)) @@
                     "/V" :> sig_object_ref)
    IN  add_object(New(w, self), NewId(w))

(***************************************************************************)
(* _prepare_sig_field (sign.py 636-737):                                   *)
(*   [w, err, field_created, sig_field_ref] afterwards.                    *)
(***************************************************************************)
PageRef == Name("page 0")

\* lines 714-737, entered with the form, the fields array, the container to
\* update and the field found (Absent when none)
PrepareCreate(w, sig_field_name, form, fields, field_container_ref, sig_field_ref, existing_fields_only, lock_sig_flags) ==
    IF sig_field_ref # Absent
    THEN [w |-> w, err |-> "none", field_created |-> FALSE,
          sig_field_ref |-> sig_field_ref]
    ELSE IF existing_fields_only
    THEN [w |-> w, err |-> "Could not find signature field",
          field_created |-> TRUE, sig_field_ref |-> Absent]
    ELSE
    LET w1 == SignatureFormField(w, sig_field_name, PageRef, Absent, FALSE)
        new_ref == Ref(NewId(w))
        w2 == ArrayAppend(w1, fields, new_ref)
        sig_flags == IF lock_sig_flags THEN 3 ELSE 1
        w3 == IF Get(w2.objs[form], "/SigFlags") = Absent
              THEN SetKey(w2, form, "/SigFlags", Num(sig_flags)) ELSE w2
        w4 == IF field_container_ref # Absent
              THEN mark_update(w3, field_container_ref) ELSE w3
    IN  [w |-> w4, err |-> "none", field_created |-> TRUE,
         sig_field_ref |-> new_ref]

\* lines 668-700, entered with the form object and its reference
PrepareInForm(w, sig_field_name, form, form_ref, existing_fields_only, lock_sig_flags) ==
    LET fields_ref == Get(w.objs[form], "/Fields")
        w1 == IF fields_ref = Absent
              THEN SetKey(New(w, ArrayObject(<<>>)), form, "/Fields",
                          Direct(NewId(w)))
              ELSE w
        fields == IF fields_ref = Absent THEN NewId(w) ELSE fields_ref.id
        field_container_ref ==
            IF IsIndirect(fields_ref) THEN fields_ref ELSE form_ref
        candidates == enumerate_sig_fields_in(
                        w1.objs, w1.objs[fields].items, NoFilter,
                        sig_field_name)
    IN  IF candidates = <<>>
        THEN IF existing_fields_only
             THEN [w |-> w1, err |-> "No empty signature field found",
                   field_created |-> FALSE, sig_field_ref |-> Absent]
             ELSE PrepareCreate(w1, sig_field_name, form, fields,
                                field_container_ref, Absent,
                                existing_fields_only, lock_sig_flags)
        ELSE IF candidates[1].ev = "raise"
        THEN [w |-> w1, err |-> candidates[1].name,
              field_created |-> FALSE, sig_field_ref |-> Absent]
        ELSE IF candidates[1].value # Absent
        THEN [w |-> w1, err |-> "appears to be filled already",
              field_created |-> FALSE, sig_field_ref |-> Absent]
        ELSE PrepareCreate(w1, sig_field_name, form, fields,
                           field_container_ref, candidates[1].ref,
                           existing_fields_only, lock_sig_flags)

_prepare_sig_field(w, sig_field_name, existing_fields_only, lock_sig_flags) ==
    LET form_ref == Get(w.objs[RootId], "/AcroForm")
    IN  IF sig_field_name = NoFilter
        THEN [w |-> w, err |-> "ValueError", field_created |-> FALSE,
              sig_field_ref |-> Absent]
        ELSE IF form_ref = Absent
        THEN \* lines 701-712: we have to create the form
             IF existing_fields_only
             THEN [w |-> w, err |-> "This file does not contain a form",
                   field_created |-> FALSE, sig_field_ref |-> Absent]
             ELSE
             LET w1 == add_object(New(w, DictionaryObject), NewId(w))
                 form == NewId(w)
                 w2 == SetKey(w1, RootId, "/AcroForm", Ref(form))
                 w3 == SetKey(New(w2, ArrayObject(<<>>)), form, "/Fields",
                              Direct(NewId(w2)))
                 fields == NewId(w2)
                 w4 == update_root(w3)
             IN  PrepareCreate(w4, sig_field_name, form, fields, Absent,
                               Absent, existing_fields_only, lock_sig_flags)
        ELSE IF IsIndirect(form_ref)
        THEN PrepareInForm(w, sig_field_name, form_ref.id, form_ref,
                           existing_fields_only, lock_sig_flags)
        ELSE \* lines 657-667: a direct form is made indirect
             LET w1 == add_object(w, form_ref.id)
                 w2 == SetKey(w1, RootId, "/AcroForm", Ref(form_ref.id))
                 w3 == update_root(w2)
             IN  PrepareInForm(w3, sig_field_name, form_ref.id,
                               Ref(form_ref.id), existing_fields_only,
                               lock_sig_flags)

(***************************************************************************)
(* DocMDPPerm (sign.py 570-577) and _certification_setup (592-633).        *)
(***************************************************************************)
NO_CHANGES == 0

FILL_FORMS == 2

ANNOTATE == 3

DocMDPPerm == {NO_CHANGES, FILL_FORMS, ANNOTATE}

Upper(md_algorithm) ==
    CASE md_algorithm = "sha1" -> "/SHA1"
      [] md_algorithm = "sha256" -> "/SHA256"
      [] md_algorithm = "sha384" -> "/SHA384"
      [] md_algorithm = "sha512" -> "/SHA512"

\* the variant that handles only a catalog without /Perms
InstallPermsWhenAbsent(w, sig_obj_ref) ==
    LET perms_ref == Get(w.objs[RootId], "/Perms")
    IN  IF perms_ref = Absent
        THEN LET w1 == SetKey(New(w, DictionaryObject), RootId, "/Perms",
                              Direct(NewId(w)))
             IN  SetKey(update_root(w1), NewId(w), "/DocMDP", sig_obj_ref)
        ELSE w
\* lines 618-633: the /Perms entry of the catalog
InstallPerms(w, sig_obj_ref) ==
    LET perms_ref == Get(w.objs[RootId], "/Perms")
    IN  IF perms_ref = Absent
        THEN LET w1 == SetKey(New(w, DictionaryObject), RootId, "/Perms",
                              Direct(NewId(w)))
             IN  SetKey(update_root(w1), NewId(w), "/DocMDP", sig_obj_ref)
        ELSE IF IsIndirect(perms_ref)
        THEN SetKey(mark_update(w, perms_ref), perms_ref.id, "/DocMDP",
                    sig_obj_ref)
        ELSE SetKey(update_root(w), perms_ref.id, "/DocMDP", sig_obj_ref)

_certification_setup(w, sig_obj_ref, md_algorithm, permission_level) ==
    LET transform_params ==
            Dict("/Type" :> Name("/TransformParams") @@
                 "/V" :> Name("/1.2") @@
                 "/P" :> Num(permission_level))
        w1 == add_object(New(w, transform_params), NewId(w))
        tp_ref == Ref(NewId(w))
        sigref_object ==
            Dict("/Type" :> Name("/SigRef") @@
                 "/TransformMethod" :> Name("/DocMDP") @@
                 "/DigestMethod" :> Name(Upper(md_algorithm)) @@
                 "/TransformParams" :> tp_ref)
        w2 == add_object(New(w1, sigref_object), NewId(w1))
        w3 == New(w2, ArrayObject(<<Ref(NewId(w1))>>))
        w4 == SetKey(w3, sig_obj_ref.id, "/Reference", Direct(NewId(w2)))
    IN  InstallPerms(w4, sig_obj_ref)

(***************************************************************************)
(* Cryptography, kept symbolic.  A digest is the index of (algorithm,      *)
(* message) in the table of messages hashed so far, so distinct messages   *)
(* have distinct digests; a message never hashed before gets the next free *)
(* index.  An RSA PKCS#1 v1.5 signature is a deterministic, injective      *)
(* function of the signed bytes and the digest algorithm.                  *)
(***************************************************************************)
MdAlgorithms == <<"sha1", "sha256", "sha384", "sha512">>

AlgCode(md_algorithm) == CHOOSE i \in 1..4 : MdAlgorithms[i] = md_algorithm

Digest(table, md_algorithm, msg) ==
    IF \E i \in 1..Len(table) : table[i] = <<md_algorithm, msg>>
    THEN CHOOSE i \in 1..Len(table) : table[i] = <<md_algorithm, msg>>
    ELSE Len(table) + 1

Remember(table, md_algorithm, msg) ==
    IF \E i \in 1..Len(table) : table[i] = <<md_algorithm, msg>>
    THEN table ELSE table \o <<(<<md_algorithm, msg>>)>>

\* stream.read(n) at offset lo: the part of the previous revision it covers
\* (named by its extent and the revision's content tag) and the bytes after
Read(s, lo, n) ==
    [blk |-> IF lo < s.base /\ n > 0
             THEN <<lo, IF lo + n < s.base THEN lo + n ELSE s.base, s.tag>>
             ELSE <<>>,
     bytes |-> StreamBytes(s, lo, n)]

\* md.update(piece) on the message hashed so far
HashUpdate(msg, piece) ==
    IF piece.blk = <<>> /\ piece.bytes = <<>> THEN msg
    ELSE IF piece.blk = <<>> /\ msg # <<>>
    THEN [msg EXCEPT ![Len(msg)].bytes = @ \o piece.bytes]
    ELSE msg \o <<piece>>

\* SimpleSigner.sign_raw (sign.py 422-426): dry_run is ignored
RsaSign(signed_attrs, md_algorithm) ==
    16 * AlgCode(md_algorithm) + signed_attrs[1]

\* the token a timestamp authority issues (one byte stands for it)
TsToken == 200

(***************************************************************************)
(* Signer.sign (sign.py 379-412) and Signer.signer_info (347-377), split   *)
(* at the timestamp request.  The DER of the ContentInfo is modelled by    *)
(*   <<length, digest algorithm, message digest, signature>> \o unsigned   *)
(* where length counts the bytes after it.                                 *)
(***************************************************************************)
\* Signer.signed_attrs (336-345): the bytes that are signed
SignedAttrs(data_digest) == <<data_digest>>

\* the dump of the ContentInfo, given the unsigned attributes (<<>> if none)
CmsDump(md_algorithm, data_digest, signature, unsigned_attrs) ==
    <<3 + Len(unsigned_attrs), AlgCode(md_algorithm), data_digest,
      signature>> \o unsigned_attrs

\* bytes.hex().encode('ascii')
HexDigits == <<"0", "1", "2", "3", "4", "5", "6", "7", "8", "9",
               "a", "b", "c", "d", "e", "f">>

RECURSIVE Hex(_)
Hex(bytes) ==
    IF bytes = <<>> THEN <<>>
    ELSE <<HexDigits[(Head(bytes) \div 16) + 1],
           HexDigits[(Head(bytes) % 16) + 1]>> \o Hex(Tail(bytes))

(***************************************************************************)
(* Timestamper.timestamp (sign.py 864-896), after the HTTP reply arrived:  *)
(* "ok" when the token is returned, else what is raised.                   *)
(***************************************************************************)
ReplyType == "application/timestamp-reply"

TimestampReplyAnyNonce(nonce, reply) ==
    IF reply.ctype # ReplyType THEN "response is malformed"
    ELSE IF reply.status # "granted" THEN "refused our request"
    ELSE "ok"
TimestampReply(nonce, reply) ==
    IF reply.ctype # ReplyType THEN "response is malformed"
    ELSE IF reply.status # "granted" THEN "refused our request"
    ELSE IF reply.nonce # nonce THEN "bad nonce value"
    ELSE "ok"

\* line 865: the check made before anything is sent
HttpsRefused(ts) == ts.https /\ ~ts.url_https

(***************************************************************************)
(* The PDF reader's view of the signature dictionary in the file: the hex  *)
(* string at the offset of /Contents and the array at the offset of        *)
(* /ByteRange.  [ok, v] with v the decoded value.                          *)
(***************************************************************************)
IsHex(c) == \E i \in 1..16 : c = HexDigits[i]

HexVal(c) == (CHOOSE i \in 1..16 : c = HexDigits[i]) - 1

\* index of the first c in data at or after index i, 0 when there is none
FirstAt(data, i, c) ==
    LET S == {j \in i..Len(data) : data[j] = c}
    IN  IF S = {} THEN 0 ELSE CHOOSE j \in S : \A q \in S : j <= q

\* a hex string's bytes; an odd final digit is read as if followed by 0
HexDecode(chars) ==
    LET n == (Len(chars) + 1) \div 2
    IN  [i \in 1..n |->
            16 * HexVal(chars[2 * i - 1])
            + (IF 2 * i <= Len(chars) THEN HexVal(chars[2 * i]) ELSE 0)]

ReadHexString(s, off) ==
    LET i0 == off - s.base + 1
        i1 == IF i0 >= 1 /\ i0 <= Len(s.data) /\ s.data[i0] = "<"
              THEN FirstAt(s.data, i0, ">") ELSE 0
    IN  IF i1 = 0 THEN [ok |-> FALSE, v |-> <<>>]
        ELSE LET chars == SubSeq(s.data, i0 + 1, i1 - 1)
             IN  IF \A i \in 1..Len(chars) : IsHex(chars[i])
                 THEN [ok |-> TRUE, v |-> HexDecode(chars)]
                 ELSE [ok |-> FALSE, v |-> <<>>]

\* every integer of 10^9 or more is read as 10^9: an offset or a length
\* beyond the end of every file considered here
Beyond == 10 * ByteRangeLimit

\* the integers of a blank-separated list; cur is the number being read
\* (-1: none)
RECURSIVE ParseNums(_, _, _)
ParseNums(chars, cur, acc) ==
    IF chars = <<>>
    THEN [ok |-> TRUE, v |-> IF cur < 0 THEN acc ELSE acc \o <<cur>>]
    ELSE IF Head(chars) = " "
    THEN ParseNums(Tail(chars), -1, IF cur < 0 THEN acc ELSE acc \o <<cur>>)
    ELSE IF IsDigit(Head(chars))
    THEN ParseNums(Tail(chars),
                   IF cur >= ByteRangeLimit THEN Beyond
                   ELSE (IF cur < 0 THEN 0 ELSE 10 * cur)
                        + DigitVal(Head(chars)),
                   acc)
    ELSE [ok |-> FALSE, v |-> <<>>]

ReadArray(s, off) ==
    LET i0 == off - s.base + 1
        i1 == IF i0 >= 1 /\ i0 <= Len(s.data) /\ s.data[i0] = "["
              THEN FirstAt(s.data, i0, "]") ELSE 0
    IN  IF i1 = 0 THEN [ok |-> FALSE, v |-> <<>>]
        ELSE ParseNums(SubSeq(s.data, i0 + 1, i1 - 1), -1, <<>>)

(***************************************************************************)
(* validate_signature (sign.py 183-263) on the file s, whose signature     *)
(* dictionary has /Contents at contents_off and /ByteRange at range_off.   *)
(* raised = TRUE when it throws instead of returning a SignatureStatus.    *)
(***************************************************************************)
Raised == [raised |-> TRUE, intact |-> FALSE, valid |-> FALSE,
           complete_document |-> FALSE]

\* lines 208-214: the message digested and the total length of the chunks
RECURSIVE DigestRegions(_, _, _, _)
DigestRegions(s, pairs, msg, total_len) ==
    IF Len(pairs) < 2 THEN [msg |-> msg, total_len |-> total_len]
    ELSE DigestRegions(s, Tail(Tail(pairs)),
                       HashUpdate(msg, Read(s, pairs[1], pairs[2])),
                       total_len + pairs[2])

\* line 219
EmbeddedSigContent(pkcs7_content) == Len(pkcs7_content) * 2 + 2

validate_signature(s, table, contents_off, range_off) ==
    LET raw_contents == ReadHexString(s, contents_off)
        range == ReadArray(s, range_off)
    IN  IF ~raw_contents.ok \/ ~range.ok \/ Len(range.v) % 2 # 0 THEN Raised
        ELSE
        LET pkcs7_content == raw_contents.v
            br_array == range.v
        IN  \* cms.ContentInfo.load: bytes after the structure are ignored
            IF Len(pkcs7_content) < 4
               \/ pkcs7_content[1] \notin {3, 4}
               \/ Len(pkcs7_content) < pkcs7_content[1] + 1
               \/ pkcs7_content[2] \notin 1..4
            THEN Raised
            ELSE
            LET md_algorithm == MdAlgorithms[pkcs7_content[2]]
                embedded_digest == pkcs7_content[3]
                signature == pkcs7_content[4]
                r == DigestRegions(s, br_array, <<>>, 0)
                raw_digest == Digest(table, md_algorithm, r.msg)
            IN  [raised |-> FALSE,
                 intact |-> raw_digest = embedded_digest,
                 valid |-> signature
                           = RsaSign(SignedAttrs(embedded_digest),
                                     md_algorithm),
                 complete_document |->
                    StreamLen(s)
                    = r.total_len + EmbeddedSigContent(pkcs7_content)]

\* SignatureStatus.summary (sign.py 166-175)
Summary(st) ==
    IF ~st.valid THEN "FORGED"
    ELSE IF st.intact
    THEN IF st.complete_document THEN "INTACT_UNTOUCHED"
         ELSE "INTACT_EXTENDED"
    ELSE "INVALID"

\* the variables of the specifications that are not running
IdleDate == [year |-> 0, month |-> 0, day |-> 0, hour |-> 0, minute |-> 0,
             second |-> 0, tz |-> FALSE, off |-> 0]

IdleLog == [op |-> "none", err |-> "none", written |-> 0, before |-> <<>>,
            n |-> 0, fills |-> 0, offset_known |-> FALSE,
            args |-> <<0, 0, 0>>]

(***************************************************************************)
(* Input documents.  A document is described by how the catalog holds      *)
(* /Perms and /AcroForm, how the form holds /Fields, and its fields:       *)
(* tree[i] = [name, ft, filled, parent, visible], parent = 0 for a field   *)
(* listed in /Fields, else the index of the field whose /Kids lists it.    *)
(* Heap: 1 catalog, 2 /Perms, 3 /AcroForm, 4 /Fields, 4 + i field i,       *)
(* then the signature dictionary of the filled fields, then field i's      *)
(* /Kids array.                                                            *)
(***************************************************************************)
RECURSIVE KidsOf(_, _, _)
KidsOf(tree, parent, i) ==
    IF i > Len(tree) THEN <<>>
    ELSE (IF tree[i].parent = parent THEN <<Ref(4 + i)>> ELSE <<>>)
         \o KidsOf(tree, parent, i + 1)

PrevObjCount(doc) == 5 + 2 * Len(doc.tree)

BuildHeap(doc) ==
    LET n == Len(doc.tree)
        oldsig == 5 + n
        holder(kind, id) == CASE kind = "absent" -> Absent
                              [] kind = "direct" -> Direct(id)
                              [] kind = "indirect" -> Ref(id)
        fieldobj(i) ==
            Dict("/T" :> (IF doc.tree[i].name = NoFilter THEN Absent
                            ELSE Str(doc.tree[i].name)) @@
                 "/FT" :> Name(doc.tree[i].ft) @@
                 "/V" :> (IF doc.tree[i].filled THEN Ref(oldsig)
                            ELSE Absent) @@
                 "/F" :> (Num(IF doc.tree[i].filled THEN FlagPrintLocked
                                ELSE FlagPrint)) @@
                 "/Rect" :> (Num(IF doc.tree[i].visible THEN 1 ELSE 0)) @@
                 "/Kids" :> (IF KidsOf(doc.tree, i, 1) = <<>> THEN Absent
                               ELSE Direct(oldsig + i)))
    IN  [id \in 1..PrevObjCount(doc) |->
            IF id = RootId
            THEN Dict("/Type" :> Name("/Catalog") @@
                      "/Perms" :> holder(doc.perms, 2) @@
                      "/AcroForm" :> holder(doc.acro, 3))
            ELSE IF id = 2 /\ doc.perms # "absent" THEN DictionaryObject
            ELSE IF id = 3 /\ doc.acro # "absent"
            THEN Dict("/Fields" :> holder(doc.fields, 4))
            ELSE IF id = 4 /\ doc.acro # "absent" /\ doc.fields # "absent"
            THEN ArrayObject(KidsOf(doc.tree, 0, 1))
            ELSE IF id > 4 /\ id <= 4 + n /\ doc.acro # "absent"
                    /\ doc.fields # "absent"
            THEN fieldobj(id - 4)
            ELSE IF id = oldsig
            THEN Dict("/Type" :> Name("/Sig"))
            ELSE IF id > oldsig /\ id <= oldsig + n
                    /\ KidsOf(doc.tree, id - oldsig, 1) # <<>>
            THEN ArrayObject(KidsOf(doc.tree, id - oldsig, 1))
            ELSE Free]

(***************************************************************************)
(* sign_pdf (sign.py 923-1061), step by step.                              *)
(***************************************************************************)
\* SignatureObject.__init__ (sign.py 128-153); name, location and reason
\* are left unset
SignatureObject ==
    Dict("/Type" :> Name("/Sig") @@
         "/Filter" :> Name("/Adobe.PPKLite") @@
         "/SubFilter" :> Name("/adbe.pkcs7.detached") @@
         "/M" :> Str("pdf_date(timestamp)") @@
         "/Contents" :> Name("PKCS7Placeholder") @@
         "/ByteRange" :> Name("SigByteRangeObject"))

Staged(wr, err, sig_obj_ref, sig_field_ref, field_created) ==
    [w |-> wr, err |-> err, sig_obj_ref |-> sig_obj_ref,
     sig_field_ref |-> sig_field_ref, field_created |-> field_created]

\* lines 995-1029, once the field is known
StageField(w2, sig_obj_ref, sig_field_ref, field_created, meta) ==
    LET sig_field == sig_field_ref.id
        w3 == SetKey(w2, sig_field, "/V", sig_obj_ref)
        w4 == IF ~field_created THEN mark_update(w3, sig_field_ref) ELSE w3
        w5 == IF Get(w4.objs[sig_field], "/Rect") # Num(0)
              THEN DelKey(SetKey(w4, sig_field, "/AP", Name("TextStamp")),
                          sig_field, "/AS")
              ELSE w4
        w6 == IF meta.certify
              THEN _certification_setup(w5, sig_obj_ref, meta.md_algorithm,
                                        meta.docmdp_permissions)
              ELSE w5
    IN  Staged(w6, "none", sig_obj_ref, sig_field_ref, field_created)

\* lines 959-1029: everything staged in the writer before serialization
sign_pdf_stage(w0, meta, existing_fields_only) ==
    LET w1 == add_object(New(w0, SignatureObject), NewId(w0))
        sig_obj_ref == Ref(NewId(w0))
    IN  IF meta.field_name = NoFilter
        THEN IF ~existing_fields_only
             THEN Staged(w1, "field name needed", sig_obj_ref, Absent, FALSE)
             ELSE
             LET empty_fields == enumerate_sig_fields(w1.objs, "False")
                 rest == Tail(empty_fields)
                 \* ', '.join(...) is a non-empty string
                 others == Len(rest) >= 2
                           \/ (Len(rest) = 1 /\ rest[1].name # "")
             IN  IF empty_fields = <<>>
                 THEN Staged(w1, "no empty signature fields", sig_obj_ref,
                             Absent, FALSE)
                 ELSE IF Raises(empty_fields)
                 THEN Staged(w1, empty_fields[Len(empty_fields)].name,
                             sig_obj_ref, Absent, FALSE)
                 ELSE IF others
                 THEN Staged(w1, "several empty signature fields",
                             sig_obj_ref, Absent, FALSE)
                 ELSE StageField(w1, sig_obj_ref, empty_fields[1].ref, FALSE,
                                 meta)
        ELSE
        LET r == _prepare_sig_field(w1, meta.field_name,
                                    existing_fields_only, TRUE)
        IN  IF r.err # "none"
            THEN Staged(r.w, r.err, sig_obj_ref, Absent, FALSE)
            ELSE StageField(r.w, sig_obj_ref, r.sig_field_ref,
                            r.field_created, meta)

\* pdf_out.write(output): the previous revision, then the update, in which
\* the signature dictionary's /Contents comes before its /ByteRange
PreLen == 2

MidLen == 1

TailLen == 3

WriterWrite(base, pk, br) ==
    LET s0 == [base |-> base, tag |-> 0, data |-> <<>>, pos |-> base]
        s1 == StreamWrite(s0, Repeat("x", PreLen))
        c == PK_write_to_stream(pk, s1)
        s2 == StreamWrite(c.stream, Repeat("x", MidLen))
        b == BR_write_to_stream(br, s2)
        s3 == StreamWrite(b.stream, Repeat("x", TailLen))
    IN  [stream |-> s3, contents |-> c.obj, byte_range |-> b.obj]

\* the hex of Signer.sign's result
SignHex(md_algorithm, data_digest, unsigned_attrs) ==
    Hex(CmsDump(md_algorithm, data_digest,
                RsaSign(SignedAttrs(data_digest), md_algorithm),
                unsigned_attrs))

Fail(what) ==
    /\ pc' = "failed"
    /\ sp' = [sp EXCEPT !.err = what]

\* no reply has arrived
NoReply == [ctype |-> "", status |-> "", nonce |-> 0]

NoTsa == [nonce |-> 0, phase |-> "none", reply |-> NoReply, result |-> "none"]

Nonces == {1, 2}

\* lines 943-949: the dry run that sizes the reservation
SizeReservation ==
    /\ pc = "start"
    /\ UNCHANGED <<stream, byte_range, brlog, date_in, date_out, inp, writer,
                   contents, status, tampered>>
    /\ IF sp.bytes_reserved # None
       THEN pc' = "sized" /\ UNCHANGED <<sp, hashed, tsa>>
       ELSE
       /\ hashed' = Remember(hashed, inp.meta.md_algorithm, <<>>)
       /\ IF ~inp.timestamper.present
          THEN /\ pc' = "sized"
               /\ sp' = [sp EXCEPT !.bytes_reserved =
                    Len(SignHex(inp.meta.md_algorithm,
                                Digest(hashed', inp.meta.md_algorithm, <<>>),
                                <<>>))]
               /\ tsa' = tsa
          ELSE IF HttpsRefused(inp.timestamper)
          THEN Fail("Timestamp URL is not HTTPS") /\ tsa' = tsa
          ELSE /\ pc' = "tsa_dry"
               /\ \E nonce \in Nonces :
                    tsa' = [NoTsa EXCEPT !.nonce = nonce, !.phase = "dry"]
               /\ sp' = sp

Replies ==
    [ctype : {ReplyType, "text/html"}, status : {"granted", "rejection"},
     nonce : Nonces]

\* the timestamp server's reply arrives (sign.py 868-896) and the sign call
\* that was waiting for it goes on
TsaReply ==
    /\ pc \in {"tsa_dry", "tsa_real"}
    /\ UNCHANGED <<stream, byte_range, brlog, date_in, date_out, inp, writer,
                   contents, hashed, status, tampered>>
    /\ \E reply \in Replies :
        LET result == TimestampReply(tsa.nonce, reply)
        IN  /\ tsa' = [tsa EXCEPT !.reply = reply, !.result = result]
            /\ IF result # "ok" THEN Fail(result)
               ELSE IF pc = "tsa_dry"
               THEN /\ pc' = "sized"
                    /\ sp' = [sp EXCEPT !.bytes_reserved =
                        Len(SignHex(inp.meta.md_algorithm,
                                    Digest(hashed, inp.meta.md_algorithm,
                                           <<>>),
                                    <<TsToken>>))]
               ELSE /\ pc' = "signed"
                    /\ sp' = [sp EXCEPT !.signature =
                        SignHex(inp.meta.md_algorithm, sp.md, <<TsToken>>)]

\* lines 951-1029
Stage ==
    /\ pc = "sized"
    /\ UNCHANGED <<stream, byte_range, brlog, date_in, date_out, inp,
                   hashed, tsa, status, tampered>>
    /\ LET r == sign_pdf_stage(writer, inp.meta, inp.existing_fields_only)
       IN  /\ writer' = r.w
           /\ contents' = PKCS7Placeholder(sp.bytes_reserved)
           /\ IF r.err # "none"
              THEN /\ pc' = "failed"
                   /\ sp' = [sp EXCEPT !.err = r.err,
                                       !.sig_obj_ref = r.sig_obj_ref]
              ELSE /\ pc' = "staged"
                   /\ sp' = [sp EXCEPT !.sig_obj_ref = r.sig_obj_ref,
                                       !.sig_field_ref = r.sig_field_ref,
                                       !.field_created = r.field_created]

\* lines 1033-1034
Write ==
    /\ pc = "staged"
    /\ UNCHANGED <<brlog, date_in, date_out, inp, writer, sp, hashed, tsa,
                   status, tampered>>
    /\ LET r == WriterWrite(inp.base, contents, byte_range)
       IN  /\ stream' = r.stream
           /\ contents' = r.contents
           /\ byte_range' = r.byte_range
    /\ pc' = "written"

\* lines 1038-1040
FillByteRange ==
    /\ pc = "written"
    /\ UNCHANGED <<brlog, date_in, date_out, inp, writer, contents, hashed, tsa,
                   status, tampered>>
    /\ LET eof == stream.pos
           sig_start == contents._offsets[1]
           sig_end == contents._offsets[2]
           r == BR_fill_offsets(byte_range, stream, sig_start, sig_end, eof)
       IN  /\ stream' = r.stream
           /\ byte_range' = r.obj
           /\ IF r.err # "none"
              THEN Fail(r.err)
              ELSE /\ pc' = "filled"
                   /\ sp' = [sp EXCEPT !.eof = eof]

\* lines 1043-1052: digest the two regions and sign
DigestAndSign ==
    /\ pc = "filled"
    /\ UNCHANGED <<stream, byte_range, brlog, date_in, date_out, inp, writer,
                   contents, status, tampered>>
    /\ LET sig_start == contents._offsets[1]
           sig_end == contents._offsets[2]
           msg == HashUpdate(
                    HashUpdate(<<>>, Read(stream, 0, sig_start)),
                    Read(stream, sig_end, StreamLen(stream) - sig_end))
           md == Digest(hashed', inp.meta.md_algorithm, msg)
       IN  /\ hashed' = Remember(hashed, inp.meta.md_algorithm, msg)
           /\ IF ~inp.timestamper.present
              THEN /\ pc' = "signed"
                   /\ sp' = [sp EXCEPT !.md = md, !.signature =
                                SignHex(inp.meta.md_algorithm, md, <<>>)]
                   /\ tsa' = tsa
              ELSE IF HttpsRefused(inp.timestamper)
              THEN /\ pc' = "failed"
                   /\ sp' = [sp EXCEPT !.md = md,
                                       !.err = "Timestamp URL is not HTTPS"]
                   /\ tsa' = tsa
              ELSE /\ pc' = "tsa_real"
                   /\ \E nonce \in Nonces :
                        tsa' = [NoTsa EXCEPT !.nonce = nonce,
                                             !.phase = "real"]
                   /\ sp' = [sp EXCEPT !.md = md]

\* lines 1054-1061: check the length, patch /Contents, return the buffer
Patch ==
    /\ pc = "signed"
    /\ UNCHANGED <<byte_range, brlog, date_in, date_out, inp, writer, contents,
                   hashed, tsa, status, tampered>>
    /\ IF Len(sp.signature) > sp.bytes_reserved
       THEN Fail("AssertionError") /\ stream' = stream
       ELSE /\ stream' = StreamSeek(
                            StreamWrite(
                                StreamSeek(stream, contents._offsets[1] + 1),
                                sp.signature),
                            0)
            /\ pc' = "done"
            /\ sp' = sp

\* the caller hands the returned file to validate_signature
Validate ==
    /\ pc = "done"
    /\ UNCHANGED <<stream, byte_range, brlog, date_in, date_out, inp, writer,
                   sp, contents, hashed, tsa, tampered>>
    /\ status' = validate_signature(stream, hashed, contents._offsets[1],
                                    byte_range._range_object_offset)
    /\ pc' = "validated"

\* somebody changes one byte of the returned file: a byte of the previous
\* revision (i = 0) or byte i of the update
TamperBytes == {"0", "7", "y"}

Tamper ==
    /\ pc = "done"
    /\ tampered = NoOffset
    /\ UNCHANGED <<byte_range, brlog, date_in, date_out, inp, writer, sp,
                   contents, hashed, tsa, status, pc>>
    /\ \E i \in 0..Len(stream.data) :
        IF i = 0
        THEN /\ stream' = [stream EXCEPT !.tag = 1]
             /\ tampered' = 0
        ELSE \E c \in TamperBytes :
             /\ c # stream.data[i]
             /\ stream' = [stream EXCEPT !.data[i] = c]
             /\ tampered' = stream.base + i - 1

NoStatus == [raised |-> FALSE, intact |-> FALSE, valid |-> FALSE,
             complete_document |-> FALSE]

NoSp == [bytes_reserved |-> None, sig_obj_ref |-> Absent,
         sig_field_ref |-> Absent, field_created |-> FALSE, md |-> 0,
         signature |-> <<>>, eof |-> 0, err |-> "none"]

NoTimestamper == [present |-> FALSE, https |-> FALSE, url_https |-> FALSE]

NoDoc == [perms |-> "absent", acro |-> "absent", fields |-> "absent",
          tree |-> <<>>]

\* the sign_pdf variables of a specification that does not call sign_pdf
IdleSign ==
    /\ pc = "idle"
    /\ inp = [base |-> 0, bytes_reserved |-> None,
              existing_fields_only |-> FALSE, timestamper |-> NoTimestamper,
              doc |-> NoDoc,
              meta |-> [field_name |-> NoFilter, md_algorithm |-> "sha512",
                        certify |-> FALSE, docmdp_permissions |-> FILL_FORMS]]
    /\ writer = [objs |-> <<>>, added |-> {}, updated |-> {}]
    /\ sp = NoSp
    /\ contents = PKCS7Placeholder(1)
    /\ hashed = <<>>
    /\ tsa = NoTsa
    /\ status = NoStatus
    /\ tampered = NoOffset

\* sign_pdf is called with arguments i on the document i.doc
InitSign(i) ==
    /\ stream = [base |-> 0, tag |-> 0, data |-> <<>>, pos |-> 0]
    /\ byte_range = SigByteRangeObject
    /\ brlog = IdleLog
    /\ date_in = IdleDate
    /\ date_out = <<>>
    /\ pc = "start"
    /\ inp = i
    /\ writer = [objs |-> BuildHeap(i.doc), added |-> {}, updated |-> {}]
    /\ sp = [NoSp EXCEPT !.bytes_reserved = i.bytes_reserved]
    /\ contents = PKCS7Placeholder(1)
    /\ hashed = <<>>
    /\ tsa = NoTsa
    /\ status = NoStatus
    /\ tampered = NoOffset

(***************************************************************************)
(* Spec: sign_pdf on documents of several sizes, with every digest         *)
(* algorithm, a defaulted or explicit reservation, with and without a      *)
(* timestamper, followed by validate_signature on the returned file.       *)
(***************************************************************************)
SmallBase == 9

MinReserved == 7

MaxReserved == 12

Bases == {SmallBase, ByteRangeLimit - PreLen - 4, ByteRangeLimit}

Timestampers ==
    {NoTimestamper}
    \cup [present : {TRUE}, https : BOOLEAN, url_https : BOOLEAN]

EmptySig1 == [name |-> "Sig1", ft |-> "/Sig", filled |-> FALSE,
              parent |-> 0, visible |-> FALSE]

DocNoForm == NoDoc

DocOneEmptyField == [perms |-> "absent", acro |-> "indirect",
                     fields |-> "direct", tree |-> <<EmptySig1>>]

Algorithms == {MdAlgorithms[i] : i \in 1..4}

Init ==
    \E base \in Bases, md \in Algorithms,
       reserved \in {None} \cup MinReserved..MaxReserved,
       ts \in Timestampers, doc \in {DocNoForm, DocOneEmptyField} :
        InitSign([base |-> base, bytes_reserved |-> reserved,
                  existing_fields_only |-> FALSE, timestamper |-> ts,
                  doc |-> doc,
                  meta |-> [field_name |-> "Sig1", md_algorithm |-> md,
                            certify |-> FALSE,
                            docmdp_permissions |-> FILL_FORMS]])

SignNext ==
    \/ SizeReservation
    \/ TsaReply
    \/ Stage
    \/ Write
    \/ FillByteRange
    \/ DigestAndSign
    \/ Patch

Next == SignNext \/ Validate

Spec == Init /\ [][Next]_vars

(***************************************************************************)
(* SpecBR: one SigByteRangeObject and the stream it is serialized to.      *)
(* The PDF writer appends other bytes, serializes the placeholder, and the *)
(* caller fills it, in any order and any number of times up to MaxOps.     *)
(***************************************************************************)
MaxOps == 3

\* offsets tried by SpecBR: small ones and ones around 10^8
SampleOffsets ==
    {0, 7, 40, ByteRangeLimit - 1, ByteRangeLimit, ByteRangeLimit + 45}

SampleBases == {0, ByteRangeLimit - 40}

InitBR ==
    /\ \E b \in SampleBases :
        stream = [base |-> b, tag |-> 0, data |-> <<>>, pos |-> b]
    /\ byte_range = SigByteRangeObject
    /\ brlog = IdleLog
    /\ date_in = IdleDate
    /\ date_out = <<>>
    /\ IdleSign

\* the writer emits some other byte of the file
BRWriterEmits ==
    /\ brlog.n < MaxOps
    /\ stream' = StreamWrite(StreamSeek(stream, StreamLen(stream)), <<"x">>)
    /\ brlog' = [brlog EXCEPT !.op = "emit", !.err = "none", !.written = 1,
                              !.before = stream.data, !.n = @ + 1]
    /\ UNCHANGED <<byte_range, date_in, date_out>>
    /\ UNCHANGED signVars

\* the writer serializes the placeholder at the end of the stream
BRSerialize ==
    /\ brlog.n < MaxOps
    /\ LET s0 == StreamSeek(stream, StreamLen(stream))
           r == BR_write_to_stream(byte_range, s0)
       IN  /\ stream' = r.stream
           /\ byte_range' = r.obj
           /\ brlog' = [brlog EXCEPT !.op = "write", !.err = "none",
                            !.written = r.stream.pos - s0.pos,
                            !.before = stream.data, !.n = @ + 1]
    /\ UNCHANGED <<date_in, date_out>>
    /\ UNCHANGED signVars

BRFill ==
    /\ brlog.n < MaxOps
    /\ \E sig_start, sig_end, eof \in SampleOffsets :
        /\ sig_start < sig_end
        /\ sig_end <= eof
        /\ LET r == BR_fill_offsets(byte_range, stream, sig_start, sig_end, eof)
           IN  /\ stream' = r.stream
               /\ byte_range' = r.obj
               /\ brlog' = [brlog EXCEPT
                    !.op = "fill", !.err = r.err,
                    !.written = IF r.err = "none"
                                THEN Len(ByteRangeRepr(r.obj)) ELSE 0,
                    !.before = stream.data, !.n = @ + 1,
                    !.fills = IF r.err = "none" THEN @ + 1 ELSE @,
                    !.offset_known =
                        byte_range._range_object_offset # NoOffset,
                    !.args = <<sig_start, sig_end, eof>>]
    /\ UNCHANGED <<date_in, date_out>>
    /\ UNCHANGED signVars

NextBR == BRWriterEmits \/ BRSerialize \/ BRFill

SpecBR == InitBR /\ [][NextBR]_vars

(***************************************************************************)
(* SpecDate: pdf_date applied to naive and timezone-aware datetimes.       *)
(***************************************************************************)
MaxTzMinutes == 24 * 60 - 1

SampleDateTimes ==
    {[year |-> 2020, month |-> 2, day |-> 29, hour |-> 23, minute |-> 5,
      second |-> 9],
     [year |-> 1999, month |-> 12, day |-> 31, hour |-> 0, minute |-> 0,
      second |-> 0]}

InitDate ==
    /\ stream = [base |-> 0, tag |-> 0, data |-> <<>>, pos |-> 0]
    /\ byte_range = SigByteRangeObject
    /\ brlog = IdleLog
    /\ \E d \in SampleDateTimes, tz \in BOOLEAN,
          off \in -MaxTzMinutes..MaxTzMinutes :
            /\ (~tz => off = 0)
            /\ date_in = [year |-> d.year, month |-> d.month, day |-> d.day,
                          hour |-> d.hour, minute |-> d.minute,
                          second |-> d.second, tz |-> tz, off |-> off]
    /\ date_out = <<>>
    /\ IdleSign

DateFormat ==
    /\ date_out = <<>>
    /\ date_out' = pdf_date(date_in)
    /\ UNCHANGED <<stream, byte_range, brlog, date_in>>
    /\ UNCHANGED signVars

NextDate == DateFormat

SpecDate == InitDate /\ [][NextDate]_vars

(***************************************************************************)
(* SpecTamper: sign_pdf on a small document, after which one byte of the   *)
(* returned file may be changed before validate_signature reads it.        *)
(***************************************************************************)
TamperTimestampers ==
    {NoTimestamper, [present |-> TRUE, https |-> TRUE, url_https |-> TRUE]}

InitTamper ==
    \E md \in {"sha1", "sha512"},
       reserved \in {None} \cup MinReserved..MaxReserved,
       ts \in TamperTimestampers :
        InitSign([base |-> SmallBase, bytes_reserved |-> reserved,
                  existing_fields_only |-> FALSE, timestamper |-> ts,
                  doc |-> DocNoForm,
                  meta |-> [field_name |-> "Sig1", md_algorithm |-> md,
                            certify |-> FALSE,
                            docmdp_permissions |-> FILL_FORMS]])

NextTamper == SignNext \/ Tamper \/ Validate

SpecTamper == InitTamper /\ [][NextTamper]_vars

(***************************************************************************)
(* SpecCertify: sign_pdf with and without certification, at every          *)
(* permission level, on catalogs that hold /Perms in each possible way.    *)
(***************************************************************************)
PermsKinds == {"absent", "direct", "indirect"}

CertifyDocs ==
    {[d EXCEPT !.perms = k] : d \in {DocNoForm, DocOneEmptyField},
                              k \in PermsKinds}

InitCertify ==
    \E md \in Algorithms, certify \in BOOLEAN, level \in DocMDPPerm,
       ts \in TamperTimestampers, doc \in CertifyDocs :
        InitSign([base |-> SmallBase, bytes_reserved |-> None,
                  existing_fields_only |-> FALSE, timestamper |-> ts,
                  doc |-> doc,
                  meta |-> [field_name |-> "Sig1", md_algorithm |-> md,
                            certify |-> certify,
                            docmdp_permissions |-> level]])

SpecCertify == InitCertify /\ [][Next]_vars

(***************************************************************************)
(* SpecFields: sign_pdf, with and without a field name, on documents whose *)
(* /Fields tree holds up to MaxFields fields: signature fields and text    *)
(* fields, empty and filled, named, with an empty name or without /T, at   *)
(* the top level or under /Kids of an earlier field.                       *)
(***************************************************************************)
MaxFields == 2

FieldNames == {"Sig1", "B", "", NoFilter}

FieldKinds ==
    {k \in [name : FieldNames, ft : {"/Sig", "/Tx"}, filled : BOOLEAN,
            visible : {FALSE}] : k.filled => k.ft = "/Sig"}

\* the trees of exactly n fields: field i hangs under an earlier field or
\* under /Fields itself
RECURSIVE TreesOf(_)
TreesOf(n) ==
    IF n = 0 THEN {<<>>}
    ELSE {Append(t, [name |-> k.name, ft |-> k.ft, filled |-> k.filled,
                     parent |-> p, visible |-> k.visible]) :
            t \in TreesOf(n - 1), k \in FieldKinds, p \in 0..(n - 1)}

Trees == UNION {TreesOf(n) : n \in 0..MaxFields}

Holders == {"direct", "indirect"}

FieldDocs ==
    {NoDoc}
    \cup {[perms |-> "absent", acro |-> a, fields |-> "absent",
           tree |-> <<>>] : a \in Holders}
    \cup {[perms |-> "absent", acro |-> a, fields |-> f, tree |-> t] :
            a \in Holders, f \in Holders, t \in Trees}

InitFields ==
    \E doc \in FieldDocs, field_name \in {NoFilter, "Sig1"},
       existing_fields_only \in BOOLEAN :
        InitSign([base |-> SmallBase, bytes_reserved |-> None,
                  existing_fields_only |-> existing_fields_only,
                  timestamper |-> NoTimestamper, doc |-> doc,
                  meta |-> [field_name |-> field_name,
                            md_algorithm |-> "sha256", certify |-> FALSE,
                            docmdp_permissions |-> FILL_FORMS]])

NextFields ==
    \/ SizeReservation
    \/ Stage
    \/ Write
    \/ FillByteRange
    \/ DigestAndSign
    \/ Patch

SpecFields == InitFields /\ [][NextFields]_vars

(***************************************************************************)
(* SpecResign: up to MaxCalls sign_pdf calls in a row on the documents of  *)
(* SpecFields.  The caller reads the returned file into a new              *)
(* IncrementalPdfFileWriter and calls sign_pdf again.  The file holds an   *)
(* object of the previous revision as the call left it only if the object, *)
(* or the indirect object that embeds it, was added or marked for update;  *)
(* otherwise it holds the object as it was.  inp.call numbers the call     *)
(* and inp.objs0 is the document the call started from.                    *)
(***************************************************************************)
MaxCalls == 2

\* object obj embeds object id
Embeds(obj, id) ==
    \/ \E key \in DOMAIN obj.d : obj.d[key] = Direct(id)
    \/ \E j \in 1..Len(obj.items) : obj.items[j] = Direct(id)

\* the indirect object in whose bytes object id of heap h is written
RECURSIVE Owner(_, _)
Owner(h, id) ==
    IF \E j \in 1..Len(h) : Embeds(h[j], id)
    THEN Owner(h, CHOOSE j \in 1..Len(h) : Embeds(h[j], id))
    ELSE id

\* the objects a reader finds in the file written by writer w, which
\* started from the objects old
Persisted(w, old) ==
    [id \in 1..Len(w.objs) |->
        IF id <= Len(old) /\ Owner(w.objs, id) \notin w.updated \cup w.added
        THEN old[id] ELSE w.objs[id]]

InitResign ==
    \E doc \in FieldDocs, field_name \in {NoFilter, "Sig1"}, existing_fields_only \in BOOLEAN :
        InitSign([base |-> SmallBase, bytes_reserved |-> None,
                  existing_fields_only |-> existing_fields_only,
                  timestamper |-> NoTimestamper, doc |-> doc,
                  call |-> 1, objs0 |-> BuildHeap(doc),
                  meta |-> [field_name |-> field_name,
                            md_algorithm |-> "sha256", certify |-> FALSE,
                            docmdp_permissions |-> FILL_FORMS]])

\* sign_pdf is called on the file the previous call returned
SignAgain ==
    /\ pc = "done"
    /\ inp.call < MaxCalls
    /\ \E field_name \in {NoFilter, "Sig1"}, existing_fields_only \in BOOLEAN :
        LET h == Persisted(writer, inp.objs0)
        IN  /\ inp' = [inp EXCEPT !.base = StreamLen(stream),
                                  !.existing_fields_only = existing_fields_only,
                                  !.meta.field_name = field_name,
                                  !.call = @ + 1,
                                  !.objs0 = h]
            /\ writer' = [objs |-> h, added |-> {}, updated |-> {}]
    /\ pc' = "start"
    /\ sp' = NoSp
    /\ byte_range' = SigByteRangeObject
    /\ contents' = PKCS7Placeholder(1)
    /\ UNCHANGED <<stream, brlog, date_in, date_out, hashed, tsa, status,
                   tampered>>

NextResign == NextFields \/ SignAgain

SpecResign == InitResign /\ [][NextResign]_vars

(***************************************************************************)
(* SpecEnum: enumerate_sig_fields and enumerate_sig_fields_in applied to   *)
(* the documents of SpecFields with every filter.  inp holds the document  *)
(* and the filters, writer the objects of the document, and sp the events  *)
(* of the generator once it has been run to its end.                       *)
(***************************************************************************)
StatusFilters == {NoFilter, "True", "False"}

NameFilters == {NoFilter, "Sig1", "B"}

\* the array the caller hands to enumerate_sig_fields_in: /Fields of the form
FieldList(h) ==
    LET form_ref == Get(h[RootId], "/AcroForm")
    IN  IF form_ref = Absent THEN <<>>
        ELSE IF Get(h[form_ref.id], "/Fields") = Absent THEN <<>>
        ELSE h[Get(h[form_ref.id], "/Fields").id].items

InitEnum ==
    \E doc \in FieldDocs, filled_status \in StatusFilters, with_name \in NameFilters :
        /\ stream = [base |-> 0, tag |-> 0, data |-> <<>>, pos |-> 0]
        /\ byte_range = SigByteRangeObject
        /\ brlog = IdleLog
        /\ date_in = IdleDate
        /\ date_out = <<>>
        /\ pc = "start"
        /\ inp = [doc |-> doc, filled_status |-> filled_status, with_name |-> with_name]
        /\ writer = [objs |-> BuildHeap(doc), added |-> {}, updated |-> {}]
        /\ sp = [call |-> "none", events |-> <<>>]
        /\ contents = PKCS7Placeholder(1)
        /\ hashed = <<>>
        /\ tsa = NoTsa
        /\ status = NoStatus
        /\ tampered = NoOffset

\* list(enumerate_sig_fields(reader, filled_status))
EnumerateReader ==
    /\ pc = "start"
    /\ inp.with_name = NoFilter
    /\ pc' = "enumerated"
    /\ sp' = [call |-> "enumerate_sig_fields",
              events |-> enumerate_sig_fields(writer.objs, inp.filled_status)]
    /\ UNCHANGED <<stream, byte_range, brlog, date_in, date_out, inp, writer,
                   contents, hashed, tsa, status, tampered>>

\* list(enumerate_sig_fields_in(fields, filled_status, with_name))
EnumerateList ==
    /\ pc = "start"
    /\ pc' = "enumerated"
    /\ sp' = [call |-> "enumerate_sig_fields_in",
              events |-> enumerate_sig_fields_in(
                            writer.objs, FieldList(writer.objs),
                            inp.filled_status, inp.with_name)]
    /\ UNCHANGED <<stream, byte_range, brlog, date_in, date_out, inp, writer,
                   contents, hashed, tsa, status, tampered>>

NextEnum == EnumerateReader \/ EnumerateList

SpecEnum == InitEnum /\ [][NextEnum]_vars

(***************************************************************************)
(* SpecAppend: sign_pdf on a small document, after which bytes may be      *)
(* appended to the returned file before validate_signature reads it.       *)
(***************************************************************************)
MaxAppend == 2

\* somebody appends n bytes (a newline first) to the returned file
AppendBytes ==
    /\ pc = "done"
    /\ tampered = NoOffset
    /\ UNCHANGED <<byte_range, brlog, date_in, date_out, inp, writer, sp,
                   contents, hashed, tsa, status, pc>>
    /\ \E n \in 1..MaxAppend :
        /\ stream' = StreamSeek(
                        StreamWrite(StreamSeek(stream, StreamLen(stream)),
                                    <<"\n">> \o Repeat("x", n - 1)),
                        stream.pos)
        /\ tampered' = StreamLen(stream)

NextAppend == SignNext \/ AppendBytes \/ Validate

SpecAppend == InitTamper /\ [][NextAppend]_vars

(***************************************************************************)
(* SpecReserve: sign_pdf with each signer variant.  Lengths are counted    *)
(* in blocks of SigBlock bytes: an RSA signature is as long as the key's   *)
(* modulus, a key of k blocks has 2048 * k bits, and the fake signature of *)
(* PKCS11Signer's dry run is DryRunFake bytes whatever the key.  The       *)
(* timestamp token is requested in the dry run as well as in the real run  *)
(* (sign.py 371-376); its length is the server's choice at each request.   *)
(***************************************************************************)
SigBlock == 256

DryRunFake == 512

MaxKeyBlocks == 3

MaxTokenBlocks == 2

Signers == [kind : {"simple", "pkcs11"}, key_blocks : 1..MaxKeyBlocks]

\* SimpleSigner.sign_raw (422-426) ignores dry_run;
\* PKCS11Signer.sign_raw (510-524) returns b'0' * 512 in a dry run
sign_raw(signer, signed_attrs, md_algorithm, dry_run) ==
    IF signer.kind = "pkcs11" /\ dry_run
    THEN Repeat(48, DryRunFake \div SigBlock)
    ELSE Repeat(RsaSign(signed_attrs, md_algorithm), signer.key_blocks)

\* Signer.sign (379-412): the dump of the ContentInfo, with the signature as
\* long as sign_raw made it
SignerSign(signer, md_algorithm, data_digest, unsigned_attrs, dry_run) ==
    LET signature == sign_raw(signer, SignedAttrs(data_digest), md_algorithm, dry_run)
    IN  <<2 + Len(signature) + Len(unsigned_attrs), AlgCode(md_algorithm), data_digest>> \o signature \o unsigned_attrs

\* the unsigned attributes signer_info (371-376) can get: none without a
\* timestamper, else the token the server returns
TokensFor(ts) ==
    IF ts.present THEN {Repeat(TsToken, n) : n \in 1..MaxTokenBlocks} ELSE {<<>>}

\* lines 943-949: the dry run that sizes the reservation
DryRunSign ==
    /\ pc = "start"
    /\ UNCHANGED <<stream, byte_range, brlog, date_in, date_out, inp, writer,
                   contents, tsa, status, tampered>>
    /\ IF sp.bytes_reserved # None
       THEN pc' = "sized" /\ UNCHANGED <<sp, hashed>>
       ELSE /\ hashed' = Remember(hashed, inp.meta.md_algorithm, <<>>)
            /\ pc' = "sized"
            /\ \E token \in TokensFor(inp.timestamper) :
                 sp' = [sp EXCEPT !.bytes_reserved =
                          Len(Hex(SignerSign(inp.signer, inp.meta.md_algorithm,
                                  Digest(hashed', inp.meta.md_algorithm, <<>>),
                                  token, TRUE)))]

\* lines 1043-1052: digest the two regions and sign
RealSign ==
    /\ pc = "filled"
    /\ UNCHANGED <<stream, byte_range, brlog, date_in, date_out, inp, writer,
                   contents, tsa, status, tampered>>
    /\ LET sig_start == contents._offsets[1]
           sig_end == contents._offsets[2]
           msg == HashUpdate(
                    HashUpdate(<<>>, Read(stream, 0, sig_start)),
                    Read(stream, sig_end, StreamLen(stream) - sig_end))
           md == Digest(hashed', inp.meta.md_algorithm, msg)
       IN  /\ hashed' = Remember(hashed, inp.meta.md_algorithm, msg)
           /\ pc' = "signed"
           /\ \E token \in TokensFor(inp.timestamper) :
                sp' = [sp EXCEPT !.md = md, !.signature =
                         Hex(SignerSign(inp.signer, inp.meta.md_algorithm, md,
                                        token, FALSE))]

InitReserve ==
    \E signer \in Signers, md \in {"sha1", "sha512"},
       reserved \in {None, MaxReserved}, ts \in TamperTimestampers :
        InitSign([base |-> SmallBase, bytes_reserved |-> reserved,
                  existing_fields_only |-> FALSE, timestamper |-> ts,
                  signer |-> signer, doc |-> DocNoForm,
                  meta |-> [field_name |-> "Sig1", md_algorithm |-> md,
                            certify |-> FALSE,
                            docmdp_permissions |-> FILL_FORMS]])

NextReserve ==
    \/ DryRunSign
    \/ Stage
    \/ Write
    \/ FillByteRange
    \/ RealSign
    \/ Patch

SpecReserve == InitReserve /\ [][NextReserve]_vars

(***************************************************************************)
(* SpecLive: sign_pdf runs to its end.  The interpreter keeps executing    *)
(* the call: while sign_pdf stands at one of its own statements (Running)  *)
(* its next statement is eventually executed, and every statement moves    *)
(* the call to another position, so the fairness is stated on the          *)
(* position (Proceed).  The reply of the timestamp server is not a step    *)
(* of the program: requests.post (sign.py 868-870) is called without a     *)
(* timeout, so at tsa_dry and tsa_real the call waits for as long as the   *)
(* server stays silent, and nothing obliges the server to answer.          *)
(***************************************************************************)
SignSteps ==
    \/ SizeReservation
    \/ Stage
    \/ Write
    \/ FillByteRange
    \/ DigestAndSign
    \/ Patch

Running == {"start", "sized", "staged", "written", "filled", "signed"}

Positions == Running \cup {"tsa_dry", "tsa_real", "failed", "done", "validated"}

Proceed == pc \in Running /\ pc' \in Positions \ {pc}

SpecLive == InitTamper /\ [][Next]_vars /\ WF_pc(Proceed)

(***************************************************************************)
(* Properties.                                                             *)
(***************************************************************************)
\* what sign_pdf has returned, read back from the bytes of the file alone:
\* the offset of the '<' of /Contents, the offset just past its '>', and
\* the length of the buffer
SigStart == stream.base + FirstAt(stream.data, 1, "<") - 1

SigEnd == stream.base + FirstAt(stream.data, 1, ">")

Eof == StreamLen(stream)

Returned == pc \in {"done", "validated"}

\* C1: whatever the document, the digest algorithm, the way the field is
\* obtained and the reservation (defaulted, or explicit and large enough
\* for the signature), validate_signature on the output of sign_pdf
\* returns intact, valid and complete_document, i.e. INTACT_UNTOUCHED.
C1_RoundTrip ==
    pc = "validated" =>
        /\ ~status.raised
        /\ status.intact /\ status.valid /\ status.complete_document
        /\ Summary(status) = "INTACT_UNTOUCHED"

\* an explicit odd reservation that is large enough: the signature verifies
\* but the file is reported as extended
C1_OddReservation ==
    /\ pc = "validated"
    /\ inp.bytes_reserved # None
    /\ inp.bytes_reserved % 2 = 1
    /\ Len(sp.signature) <= inp.bytes_reserved
    /\ ~status.raised /\ status.intact /\ status.valid
    /\ ~status.complete_document
    /\ Summary(status) = "INTACT_EXTENDED"

\* C2: in every buffer sign_pdf returns, the /ByteRange token reads
\* [0, sig_start, sig_end, eof - sig_end], with sig_start the offset of the
\* '<' of /Contents, sig_end the offset just past its '>' and eof the
\* length of the buffer: the two regions are disjoint and leave out exactly
\* the <...> literal.
C2_ByteRangeOnDisk ==
    Returned =>
        LET token == ReadArray(stream, byte_range._range_object_offset)
        IN  /\ token.ok
            /\ token.v = <<0, SigStart, SigEnd, Eof - SigEnd>>
            /\ SigStart < SigEnd /\ SigEnd <= Eof
            /\ contents._offsets = <<SigStart, SigEnd>>
            /\ SigEnd - SigStart = sp.bytes_reserved + 2

\* a returned buffer whose token holds offsets of the update
C2_Returned ==
    /\ Returned
    /\ inp.doc = DocOneEmptyField
    /\ ReadArray(stream, byte_range._range_object_offset).v
        = <<0, SmallBase + PreLen, SmallBase + PreLen + sp.bytes_reserved + 2,
            MidLen + Len(ByteRangeRepr(byte_range)) + TailLen>>

\* C3: after one byte of a signed output is changed, validate_signature
\* reports intact = false when the byte lies outside [sig_start, sig_end),
\* and valid = false when it lies in the hex region between '<' and '>',
\* signature digits and padding alike.  A validation that throws counts as
\* a detection.
C3_TamperDetected ==
    (pc = "validated" /\ tampered # NoOffset) =>
        /\ (tampered < contents._offsets[1]
            \/ tampered >= contents._offsets[2])
                => (status.raised \/ ~status.intact)
        /\ (tampered > contents._offsets[1]
            /\ tampered < contents._offsets[2] - 1)
                => (status.raised \/ ~status.valid)

\* the part of C3 about the bytes outside the literal
C3_OutsideDetected ==
    (pc = "validated" /\ tampered # NoOffset
        /\ (tampered < contents._offsets[1]
            \/ tampered >= contents._offsets[2]))
        => (status.raised \/ ~status.intact)

\* a padding byte was changed and the signature still verifies
C3_PaddingChanged ==
    /\ pc = "validated"
    /\ tampered > contents._offsets[1] + Len(sp.signature)
    /\ tampered < contents._offsets[2] - 1
    /\ ~status.raised /\ status.valid /\ status.intact

\* the values of the placeholder all lie between 0 and 10^8 - 1
Legal(obj) ==
    /\ obj.first_region_len \in 0..(ByteRangeLimit - 1)
    /\ obj.second_region_offset \in 0..(ByteRangeLimit - 1)
    /\ obj.second_region_len \in 0..(ByteRangeLimit - 1)

\* the token has just been written, by the writer or by fill_offsets
TokenWritten == brlog.op \in {"write", "fill"} /\ brlog.err = "none"

\* the width of "[ %08d %08d %08d %08d ]" for values below 10^8:
\* four numbers of ByteRangeDigits digits, three blanks between them, and
\* a bracket and a blank at either end
TokenWidth == 4 * ByteRangeDigits + 3 + 4

\* C4 (as the code has it): for all values (0, l1, o2, l2) between 0 and
\* 10^8 - 1, write_to_stream writes exactly 39 bytes, the same count for
\* every such value.
C4_Width39 ==
    (TokenWritten /\ Legal(byte_range)) =>
        /\ brlog.written = TokenWidth
        /\ TokenWidth = 39
        /\ Len(ByteRangeRepr(byte_range)) = brlog.written

\* C4 as stated: for all values between 0 and 10^8 - 1, write_to_stream
\* writes exactly 36 bytes.
C4_Width36 ==
    (TokenWritten /\ Legal(byte_range)) => brlog.written = 36

\* the token was written with the largest legal values and with zeros
C4_LargestWritten ==
    /\ TokenWritten
    /\ brlog.op = "fill"
    /\ byte_range.second_region_offset = ByteRangeLimit - 1
    /\ byte_range.first_region_len = 7
    /\ brlog.written = 39

\* C5: when sig_start, sig_end or eof - sig_end is 10^8 or more, filling
\* the ByteRange fails and so does sign_pdf: no token wider than the
\* reserved one is written and no buffer is returned.
C5_LargeFileFails ==
    pc \in {"filled", "tsa_real", "signed", "done", "validated"} =>
        /\ Legal(byte_range)
        /\ Len(ByteRangeRepr(byte_range)) = TokenWidth

\* sign_pdf has returned a buffer whose offsets need nine digits and whose
\* token is wider than the one reserved
C5_LargeFileReturned ==
    /\ pc = "done"
    /\ byte_range.first_region_len >= ByteRangeLimit
    /\ Len(ByteRangeRepr(byte_range)) > TokenWidth
    /\ sp.err = "none"

\* C6: fill_offsets fails when the placeholder was never serialized, and a
\* second fill_offsets on the same placeholder fails and leaves the bytes
\* of the stream as they were.
C6_OneShot ==
    /\ (brlog.op = "fill" /\ ~brlog.offset_known) =>
            (brlog.err # "none" /\ stream.data = brlog.before)
    /\ brlog.fills <= 1
    /\ (brlog.op = "fill" /\ brlog.err # "none") =>
            stream.data = brlog.before

\* the part of C6 about a placeholder that was never serialized
C6_NeverSerialized ==
    (brlog.op = "fill" /\ ~brlog.offset_known) =>
        (brlog.err = "Could not determine offset"
         /\ stream.data = brlog.before)

\* a second fill_offsets succeeded and rewrote the token
C6_FilledTwice ==
    /\ brlog.op = "fill"
    /\ brlog.err = "none"
    /\ brlog.fills = 2
    /\ stream.data # brlog.before
    /\ ~byte_range._filled

\* the reply was of the right type, granted, and carried the nonce sent
GoodReply ==
    /\ tsa.reply.ctype = ReplyType
    /\ tsa.reply.status = "granted"
    /\ tsa.reply.nonce = tsa.nonce

\* C7: Timestamper.timestamp returns a token only when the reply has
\* Content-Type application/timestamp-reply, its status is granted and its
\* nonce is the one sent with this request; in every other case it raises,
\* and the sign_pdf call that uses the timestamper fails and returns no
\* buffer.
C7_TimestampChecked ==
    /\ tsa.result # "none" =>
        /\ (tsa.result = "ok") <=> GoodReply
        /\ tsa.result # "ok" =>
            (pc = "failed" /\ sp.err = tsa.result /\ ~Returned)
    /\ (Returned /\ inp.timestamper.present) =>
        (tsa.phase = "real" /\ tsa.result = "ok" /\ GoodReply)

\* the reply to the real request carried another nonce and sign_pdf failed
C7_NonceMismatch ==
    /\ pc = "failed"
    /\ tsa.phase = "real"
    /\ tsa.result = "bad nonce value"
    /\ tsa.reply.ctype = ReplyType
    /\ tsa.reply.status = "granted"
    /\ tsa.reply.nonce # tsa.nonce

\* the UTC offset of dt as total signed seconds
UtcOffsetSecondsSigned(dt) == dt.off * 60

\* the offset string for a UTC offset of s seconds, read as total signed
\* seconds
SignedOffsetString(s) ==
    IF s = 0 THEN <<"Z">>
    ELSE <<IF s < 0 THEN "-" ELSE "+">>
            \o ZeroPad(Abs(s) \div 3600, 2) \o <<"'">>
            \o ZeroPad((Abs(s) % 3600) \div 60, 2) \o <<"'">>

\* C8: for a timezone-aware datetime with UTC offset s, pdf_date returns
\* D:YYYYMMDDHHMMSS followed by Z when s = 0 and otherwise by the sign of s
\* and HH'MM' computed from |s|: UTC ends with Z, +05:30 with +05'30' and
\* -05:00 with -05'00'.
C8_SignedOffset ==
    (date_out # <<>> /\ date_in.tz) =>
        date_out = StrfTime(date_in)
                    \o SignedOffsetString(UtcOffsetSecondsSigned(date_in))

\* the part of C8 about offsets that are zero or positive
C8_EastOfGreenwich ==
    (date_out # <<>> /\ date_in.tz /\ date_in.off >= 0) =>
        date_out = StrfTime(date_in)
                    \o SignedOffsetString(UtcOffsetSecondsSigned(date_in))

\* -05:00 is written as +19'00'
C8_MinusFive ==
    /\ date_in.tz
    /\ date_in.off = -300
    /\ date_out = StrfTime(date_in) \o <<"+", "1", "9", "'", "0", "0", "'">>

\* the objects the certification is made of, as the writer holds them once
\* sign_pdf has returned
SigDict == writer.objs[sp.sig_obj_ref.id]

PermsRef == Get(writer.objs[RootId], "/Perms")

ReferenceItems == writer.objs[Get(SigDict, "/Reference").id].items

SigRefDict == writer.objs[ReferenceItems[1].id]

TransformParams == writer.objs[Get(SigRefDict, "/TransformParams").id]

\* the catalog, and the /Perms dictionary, of the document sign_pdf was
\* called on
OldRoot == BuildHeap(inp.doc)[RootId]

\* C9: when certify is true, after sign_pdf the catalog's /Perms/DocMDP
\* refers to the signature dictionary this call created, and that
\* dictionary has a one-element /Reference array whose entry has
\* TransformMethod /DocMDP, whether /Perms was absent, direct or indirect
\* before (an existing /Perms object is the one that gets the entry, and
\* the object holding the change is part of the update).  When certify is
\* false neither /Perms nor /Reference is touched.
C9_Certified ==
    Returned =>
        IF inp.meta.certify
        THEN /\ PermsRef.k = "ref"
             /\ Get(writer.objs[PermsRef.id], "/DocMDP") = sp.sig_obj_ref
             /\ sp.sig_obj_ref.id > PrevObjCount(inp.doc)
             /\ sp.sig_obj_ref.id \in writer.added
             /\ Get(SigDict, "/Type") = Name("/Sig")
             /\ Get(SigDict, "/Reference").k = "ref"
             /\ Len(ReferenceItems) = 1
             /\ Get(SigRefDict, "/TransformMethod") = Name("/DocMDP")
             /\ inp.doc.perms # "absent" => PermsRef = Get(OldRoot, "/Perms")
             /\ IF inp.doc.perms = "indirect"
                THEN PermsRef.id \in writer.updated
                ELSE RootId \in writer.updated
        ELSE /\ PermsRef = Get(OldRoot, "/Perms")
             /\ inp.doc.perms # "absent" =>
                    writer.objs[PermsRef.id] = DictionaryObject
             /\ Get(SigDict, "/Reference") = Absent

\* a certified output for a catalog that held /Perms as an indirect object
C9_CertifiedIndirect ==
    /\ Returned
    /\ inp.meta.certify
    /\ inp.doc.perms = "indirect"
    /\ inp.doc = [DocOneEmptyField EXCEPT !.perms = "indirect"]
    /\ Get(writer.objs[PermsRef.id], "/DocMDP") = sp.sig_obj_ref

\* C10: the level written to TransformParams /P is 1 for NO_CHANGES, 2 for
\* FILL_FORMS and 3 for ANNOTATE.
C10_PermissionLevel ==
    (Returned /\ inp.meta.certify) =>
        Get(TransformParams, "/P")
            = Num(CASE inp.meta.docmdp_permissions = NO_CHANGES -> 1
                    [] inp.meta.docmdp_permissions = FILL_FORMS -> 2
                    [] inp.meta.docmdp_permissions = ANNOTATE -> 3)

\* the part of C10 about FILL_FORMS and ANNOTATE
C10_FillFormsAnnotate ==
    (Returned /\ inp.meta.certify
        /\ inp.meta.docmdp_permissions # NO_CHANGES) =>
        Get(TransformParams, "/P")
            = Num(IF inp.meta.docmdp_permissions = FILL_FORMS THEN 2 ELSE 3)

\* a document certified with NO_CHANGES carries /P 0
C10_NoChangesIsZero ==
    /\ Returned
    /\ inp.meta.certify
    /\ inp.meta.docmdp_permissions = NO_CHANGES
    /\ Get(TransformParams, "/P") = Num(0)

\* the fields of the input document that are signature fields with a name
\* and no /V, at any depth of the tree
EmptyFields ==
    {i \in 1..Len(inp.doc.tree) :
        /\ inp.doc.tree[i].ft = "/Sig"
        /\ inp.doc.tree[i].name # NoFilter
        /\ ~inp.doc.tree[i].filled}

\* heap object id of field i of the input document
FieldId(i) == 4 + i

\* C11: with field_name = None, sign_pdf fails unless existing_fields_only
\* is true, and otherwise succeeds exactly when the document holds exactly
\* one empty signature field, which it fills; with none it fails, and with
\* two or more it fails with the error that names the candidates, whatever
\* their names and nesting.
C11_AutoPick ==
    inp.meta.field_name = NoFilter =>
        /\ pc = "done" =>
            /\ inp.existing_fields_only
            /\ Cardinality(EmptyFields) = 1
            /\ \E i \in EmptyFields :
                /\ sp.sig_field_ref = Ref(FieldId(i))
                /\ Get(writer.objs[FieldId(i)], "/V") = sp.sig_obj_ref
        /\ (pc = "failed" /\ inp.existing_fields_only) =>
            /\ Cardinality(EmptyFields) # 1
            /\ Cardinality(EmptyFields) >= 2 =>
                sp.err = "several empty signature fields"

\* the part of C11 about existing_fields_only
C11_NeedsExistingOnly ==
    (inp.meta.field_name = NoFilter /\ ~inp.existing_fields_only) =>
        (pc \in {"start", "sized"}
         \/ (pc = "failed" /\ sp.err = "field name needed"))

\* two empty signature fields at the top level, the second one with an
\* empty name: sign_pdf fills the first
C11_SecondUnnamed ==
    /\ pc = "done"
    /\ inp.meta.field_name = NoFilter
    /\ Len(inp.doc.tree) = 2
    /\ \A i \in 1..2 : /\ inp.doc.tree[i].ft = "/Sig"
                       /\ ~inp.doc.tree[i].filled
                       /\ inp.doc.tree[i].parent = 0
    /\ inp.doc.tree[1].name = "Sig1"
    /\ inp.doc.tree[2].name = ""
    /\ sp.sig_field_ref = Ref(FieldId(1))

\* the staging of sign_pdf went through: a field was found or created
StagedOk == pc \in {"staged", "written", "filled", "signed", "done"}

\* the signature fields of the input document that carry the requested
\* name, at any depth of the tree
Named ==
    {i \in 1..Len(inp.doc.tree) :
        /\ inp.doc.tree[i].ft = "/Sig"
        /\ inp.doc.tree[i].name = inp.meta.field_name}

\* the /Fields array, in the writer and in the input document
FieldsItems ==
    LET form == writer.objs[Get(writer.objs[RootId], "/AcroForm").id]
    IN  writer.objs[Get(form, "/Fields").id].items

OldFieldsItems ==
    IF inp.doc.acro = "absent" \/ inp.doc.fields = "absent" THEN <<>>
    ELSE KidsOf(inp.doc.tree, 0, 1)

SigField == writer.objs[sp.sig_field_ref.id]

\* C12: for a given name, _prepare_sig_field reuses a field only if it is
\* a signature field whose /T is the requested name and which has no /V
\* (field_created = false, nothing appended to /Fields); it fails if the
\* signature field of that name is filled, fails if there is none and
\* existing_fields_only is true, and otherwise creates exactly one new
\* field with that name.
C12_NamedField ==
    inp.meta.field_name # NoFilter =>
        /\ (StagedOk /\ ~sp.field_created) =>
            /\ \E i \in Named :
                /\ sp.sig_field_ref = Ref(FieldId(i))
                /\ ~inp.doc.tree[i].filled
            /\ FieldsItems = OldFieldsItems
        /\ (StagedOk /\ sp.field_created) =>
            /\ ~inp.existing_fields_only
            /\ sp.sig_field_ref.id > PrevObjCount(inp.doc)
            /\ Get(SigField, "/T") = Str(inp.meta.field_name)
            /\ Get(SigField, "/FT") = Name("/Sig")
            /\ FieldsItems = OldFieldsItems \o <<sp.sig_field_ref>>
        /\ (Named # {} /\ \A i \in Named : inp.doc.tree[i].filled) =>
            ~StagedOk
        /\ (Named = {} /\ inp.existing_fields_only) => ~StagedOk

\* C12 for documents whose fields all lie in /Fields itself
C12_NamedFieldFlat ==
    (\A i \in 1..Len(inp.doc.tree) : inp.doc.tree[i].parent = 0)
        => C12_NamedField

\* an empty field named B, a kid of another signature field, was taken for
\* the field named Sig1
C12_OtherNameReused ==
    /\ pc = "done"
    /\ inp.meta.field_name = "Sig1"
    /\ ~sp.field_created
    /\ Get(SigField, "/T") = Str("B")
    /\ Named = {}

\* the regions the /ByteRange token of the file declares, together with
\* the <...> literal, cover every byte of the file
Covered ==
    LET v == ReadArray(stream, byte_range._range_object_offset).v
    IN  \A o \in 0..(Eof - 1) :
            \/ (SigStart <= o /\ o < SigEnd)
            \/ \E k \in 1..(Len(v) \div 2) :
                    v[2 * k - 1] <= o /\ o < v[2 * k - 1] + v[2 * k]

Appended == tampered # NoOffset /\ tampered >= sp.eof

\* C13: validate_signature reports complete_document = true exactly when
\* the regions of /ByteRange together with the <...> literal cover every
\* byte of the file; a signed output with bytes appended, such as one
\* newline, gives intact, valid and not complete_document, i.e.
\* INTACT_EXTENDED.
C13_CompleteDocument ==
    (pc = "validated" /\ ~status.raised) =>
        /\ status.complete_document <=> Covered
        /\ Appended => (/\ status.intact /\ status.valid
                        /\ ~status.complete_document
                        /\ Summary(status) = "INTACT_EXTENDED")

\* C13 for reservations of an even number of bytes
C13_EvenReservation ==
    sp.bytes_reserved % 2 = 0 => C13_CompleteDocument

\* one newline was appended to an output signed with an odd reservation,
\* and the file is reported complete
C13_AppendedUntouched ==
    /\ pc = "validated"
    /\ Appended
    /\ StreamLen(stream) = sp.eof + 1
    /\ inp.bytes_reserved % 2 = 1
    /\ ~Covered
    /\ status.intact /\ status.valid /\ status.complete_document
    /\ Summary(status) = "INTACT_UNTOUCHED"

\* nothing was appended and every byte is covered, yet the file is not
\* reported complete
C13_CoveredNotComplete ==
    /\ pc = "validated"
    /\ ~Appended
    /\ Covered
    /\ ~status.raised
    /\ ~status.complete_document
    /\ Summary(status) = "INTACT_EXTENDED"

\* C14: a sign_pdf call with a timestamper always terminates: if the
\* server never replies the exchange is abandoned after the timeout, the
\* call fails and returns no buffer; it never waits forever.
C14_Terminates == <>(pc \in {"failed", "done", "validated"})

\* C14 for calls that use no timestamper
C14_TerminatesWithoutTsa ==
    ~inp.timestamper.present ~> (pc \in {"failed", "done", "validated"})

\* the call is waiting for the reply to its timestamp request
C14_Waiting ==
    /\ pc = "tsa_real"
    /\ inp.timestamper.present
    /\ tsa.result = "none"

\* the steps taken from the positions of Running are the statements of
\* sign_pdf, and each of them changes the position
C14_ProceedIsSignStep ==
    [][(pc \in Running) => (SignSteps /\ pc' # pc)]_vars

\* every position the call takes is one of Positions
C14_Positions == pc \in Positions

\* C15: when bytes_reserved is not given, the hex encoding of the real CMS
\* is never longer than the reservation computed from the dry run, for
\* every signer variant and with or without a timestamper, so sign_pdf
\* never fails its length check on a defaulted reservation.
C15_ReservationSufficient ==
    inp.bytes_reserved = None =>
        /\ sp.err # "AssertionError"
        /\ pc \in {"signed", "done"} => Len(sp.signature) <= sp.bytes_reserved

\* C15 for the signers whose real signature is no longer than the dry run's:
\* a software key, or a token key of at most DryRunFake bytes, without a
\* timestamper
C15_SufficientUpTo4096 ==
    (/\ inp.bytes_reserved = None
     /\ ~inp.timestamper.present
     /\ \/ inp.signer.kind = "simple"
        \/ inp.signer.key_blocks * SigBlock <= DryRunFake) =>
        /\ sp.err # "AssertionError"
        /\ pc \in {"signed", "done"} => Len(sp.signature) <= sp.bytes_reserved

\* a PKCS#11 key longer than 4096 bits, no timestamper, defaulted
\* reservation: the length check fails
C15_LargeTokenKeyFails ==
    /\ inp.bytes_reserved = None
    /\ inp.signer.kind = "pkcs11"
    /\ inp.signer.key_blocks * SigBlock > DryRunFake
    /\ ~inp.timestamper.present
    /\ pc = "failed"
    /\ sp.err = "AssertionError"
    /\ Len(sp.signature) > sp.bytes_reserved

\* a software key with a timestamper whose real token is longer than the
\* dry run's: the length check fails
C15_LongerTokenFails ==
    /\ inp.bytes_reserved = None
    /\ inp.signer.kind = "simple"
    /\ inp.timestamper.present
    /\ pc = "failed"
    /\ sp.err = "AssertionError"

\* the buffer right after serialization (sign.py 1033-1034)
Serialized ==
    WriterWrite(inp.base, PKCS7Placeholder(sp.bytes_reserved),
                SigByteRangeObject).stream

\* the byte of buffer s at file offset k
ByteAt(s, k) == s.data[k - s.base + 1]

\* offset k lies in the token reserved for the ByteRange array
InToken(k) ==
    /\ k >= byte_range._range_object_offset
    /\ k < byte_range._range_object_offset + TokenWidth

\* offset k lies between the delimiters of /Contents
InPayload(k) == k > contents._offsets[1] /\ k < contents._offsets[2] - 1

\* the offsets of the update at which the buffer differs from Serialized
Changed ==
    {k \in stream.base..(StreamLen(Serialized) - 1) :
        \/ k >= StreamLen(stream)
        \/ ByteAt(stream, k) # ByteAt(Serialized, k)}

\* what the two patches may have done to the buffer
PatchFrame ==
    LET sig_start == contents._offsets[1]
        sig_end == contents._offsets[2]
        n == Len(sp.signature)
    IN  /\ stream.base = Serialized.base
        /\ stream.tag = Serialized.tag
        /\ StreamLen(stream) = StreamLen(Serialized)
        /\ \A k \in Changed : InToken(k) \/ InPayload(k)
        /\ ByteAt(stream, sig_start) = "<"
        /\ ByteAt(stream, sig_end - 1) = ">"
        /\ StreamBytes(stream, sig_start + 1, n) = sp.signature
        /\ \A k \in (sig_start + 1 + n)..(sig_end - 2) :
                ByteAt(stream, k) = "0"

\* the <...> literal of /Contents is as it was serialized
LiteralUntouched ==
    LET sig_start == contents._offsets[1]
        sig_end == contents._offsets[2]
    IN  StreamBytes(stream, sig_start, sig_end - sig_start)
            = StreamBytes(Serialized, sig_start, sig_end - sig_start)

\* sign_pdf has computed a signature longer than the reservation
TooLong == sp.signature # <<>> /\ Len(sp.signature) > sp.bytes_reserved

\* C16: the two patches made after serialization change nothing but the
\* ByteRange token and the reserved /Contents payload: the length of the
\* buffer is that after serialization, every other byte is unchanged, '<'
\* and '>' stay at sig_start and sig_end - 1, the hex signature starts at
\* sig_start + 1 and the rest of the reservation is still '0'; a signature
\* longer than the reservation makes the call fail instead.
C16_PatchFrame ==
    /\ Returned => PatchFrame
    /\ (TooLong /\ pc # "signed") => (pc = "failed" /\ LiteralUntouched)

\* C16 for the files whose offsets are all below 10^8
C16_PatchFrameBelowLimit ==
    /\ (Returned /\ Legal(byte_range)) => PatchFrame
    /\ (TooLong /\ pc # "signed") => (pc = "failed" /\ LiteralUntouched)

\* a returned buffer in which filling the ByteRange changed a byte after
\* the reserved token
C16_ByteAfterTokenChanged ==
    /\ pc = "done"
    /\ \E k \in Changed :
        /\ k >= byte_range._range_object_offset + TokenWidth
        /\ ~InPayload(k)

\* a call that failed because the signature did not fit
C16_TooLongFailed ==
    /\ TooLong
    /\ pc = "failed"
    /\ sp.err = "AssertionError"
    /\ LiteralUntouched

\* the objects of the document before the call
OldObjs == BuildHeap(inp.doc)

\* the objects of the previous revision the call has changed
Mutated == {id \in 1..PrevObjCount(inp.doc) : writer.objs[id] # OldObjs[id]}

\* the indirect object in whose bytes object id of the previous revision
\* is written: itself, or the object that embeds it
OwnerOf(id) ==
    LET form == IF inp.doc.acro = "direct" /\ 3 \notin writer.added
                THEN RootId ELSE 3
    IN  IF id = 3 THEN form
        ELSE IF id = 4 /\ inp.doc.fields = "direct" THEN form
        ELSE IF id > 5 + Len(inp.doc.tree) THEN id - 1 - Len(inp.doc.tree)
        ELSE id

\* sign_pdf has staged its changes and created the field
Created ==
    /\ pc \in {"staged", "written", "filled", "signed", "done"}
    /\ sp.field_created

\* C17: whenever _prepare_sig_field creates a new field, every existing
\* indirect object it mutates is registered for update with the writer
\* (the catalog, the AcroForm object, the /Fields array object), for every
\* combination of absent, direct or indirect /AcroForm and /Fields.
C17_UpdatesRegistered ==
    Created =>
        \A id \in Mutated : OwnerOf(id) \in writer.updated \cup writer.added

\* C17 for every combination but an indirect /AcroForm with an indirect
\* /Fields array
C17_RegisteredUnlessBothIndirect ==
    (Created /\ ~(inp.doc.acro = "indirect" /\ inp.doc.fields = "indirect")) =>
        \A id \in Mutated : OwnerOf(id) \in writer.updated \cup writer.added

\* an indirect /AcroForm with an indirect /Fields array: the form has
\* received /SigFlags and only the array is registered
C17_FormNotRegistered ==
    /\ Created
    /\ inp.doc.acro = "indirect" /\ inp.doc.fields = "indirect"
    /\ Get(OldObjs[3], "/SigFlags") = Absent
    /\ Get(writer.objs[3], "/SigFlags") = Num(3)
    /\ 4 \in writer.updated
    /\ 3 \notin writer.updated \cup writer.added

\* the other combinations occur and register what they change
C17_OtherCombinations ==
    /\ Created
    /\ inp.doc.acro = "direct" /\ inp.doc.fields = "indirect"
    /\ Mutated = {1, 3, 4}
    /\ {1, 4} \subseteq writer.updated /\ 3 \in writer.added

\* the signature fields of the document as the call leaves it
SigFieldIds ==
    {id \in 1..Len(writer.objs) :
        /\ writer.objs[id].kind = "dict"
        /\ Get(writer.objs[id], "/FT") = Name("/Sig")}

\* C18: in the document sign_pdf produces, the signed field has /V and its
\* /F has the Locked bit set together with Print, whether the field was
\* created by the call or an existing empty field was reused; a field
\* without /V has only Print set.
C18_LockedWhenFilled ==
    pc = "done" =>
        /\ Get(SigField, "/V") = sp.sig_obj_ref
        /\ Get(SigField, "/F") = Num(FlagPrintLocked)
        /\ \A id \in SigFieldIds :
                Get(writer.objs[id], "/V") = Absent =>
                    Get(writer.objs[id], "/F") = Num(FlagPrint)

\* what the code does: the signed field has /V, its /F is the one it had
\* (Print alone for a field the call created), and a field without /V has
\* only Print
C18_FlagsAsBefore ==
    pc = "done" =>
        /\ Get(SigField, "/V") = sp.sig_obj_ref
        /\ Get(SigField, "/F") =
                (IF sp.field_created THEN Num(FlagPrint)
                 ELSE Get(OldObjs[sp.sig_field_ref.id], "/F"))
        /\ \A id \in SigFieldIds :
                Get(writer.objs[id], "/V") = Absent =>
                    Get(writer.objs[id], "/F") = Num(FlagPrint)

\* a field created by the call: filled, with Print alone
C18_CreatedNotLocked ==
    /\ pc = "done"
    /\ sp.field_created
    /\ Get(SigField, "/V") = sp.sig_obj_ref
    /\ Get(SigField, "/F") = Num(FlagPrint)

\* an existing empty field reused by the call: filled, with Print alone
C18_ReusedNotLocked ==
    /\ pc = "done"
    /\ ~sp.field_created
    /\ Get(OldObjs[sp.sig_field_ref.id], "/V") = Absent
    /\ Get(SigField, "/V") = sp.sig_obj_ref
    /\ Get(SigField, "/F") = Num(FlagPrint)

\* the fields of the document that are signature fields with a name and
\* satisfy the filters, at any depth
Matching ==
    {i \in 1..Len(inp.doc.tree) :
        /\ inp.doc.tree[i].ft = "/Sig"
        /\ inp.doc.tree[i].name # NoFilter
        /\ inp.filled_status = "True" => inp.doc.tree[i].filled
        /\ inp.filled_status = "False" => ~inp.doc.tree[i].filled
        /\ inp.with_name # NoFilter => inp.doc.tree[i].name = inp.with_name}

\* the fields the generator has yielded
Yielded == {sp.events[j].ref.id - 4 : j \in {x \in 1..Len(sp.events) : sp.events[x].ev = "yield"}}

\* the generator ran to its end without raising
Enumerated == pc = "enumerated" /\ ~Raises(sp.events)

\* every field of the document is listed in /Fields itself
Flat == \A i \in 1..Len(inp.doc.tree) : inp.doc.tree[i].parent = 0

\* C19: enumerate_sig_fields and enumerate_sig_fields_in yield exactly the
\* fields with FT = /Sig at any depth of the /Fields tree that have a name
\* and satisfy the filters (filled_status True: filled, False: empty, None:
\* all; with_name: that name): no yielded field violates a filter and no
\* nested signature field is missed.
C19_EnumerateExact == Enumerated => Yielded = Matching

\* C19 for the fields listed in /Fields itself
C19_EnumerateExactFlat == (Enumerated /\ Flat) => Yielded = Matching

\* every yielded tuple is the (name, /V, reference) of a signature field
C19_YieldsSignatureFields ==
    pc = "enumerated" =>
        \A j \in 1..Len(sp.events) :
            sp.events[j].ev = "yield" =>
                LET field == writer.objs[sp.events[j].ref.id]
                IN  /\ Get(field, "/FT") = Name("/Sig")
                    /\ Get(field, "/T") = Str(sp.events[j].name)
                    /\ Get(field, "/V") = sp.events[j].value

\* asked for empty fields, the generator yields a filled field that hangs
\* under /Kids
C19_FilledKidYielded ==
    /\ Enumerated
    /\ inp.filled_status = "False"
    /\ \E i \in Yielded : inp.doc.tree[i].filled /\ inp.doc.tree[i].parent # 0

\* a signature field under a text field is not yielded although it
\* satisfies the filters
C19_KidOfTextFieldMissed ==
    /\ Enumerated
    /\ \E i \in Matching \ Yielded :
        /\ inp.doc.tree[i].parent # 0
        /\ inp.doc.tree[inp.doc.tree[i].parent].ft = "/Tx"

\* object id of heap h is a signature field that has a /V entry
FilledIn(h, id) ==
    /\ h[id].kind = "dict"
    /\ Get(h[id], "/FT") = Name("/Sig")
    /\ Get(h[id], "/V") # Absent

\* no step replaces or removes the /V of a filled signature field
KeepsFilled ==
    \A id \in 1..Len(writer.objs) :
        FilledIn(writer.objs, id) =>
            Get(writer'.objs[id], "/V") = Get(writer.objs[id], "/V")

\* a call that stages its changes sets /V on a field that had none
FillsEmpty ==
    (pc = "sized" /\ pc' = "staged") =>
        /\ sp'.sig_field_ref.id \in 1..Len(writer'.objs)
        /\ sp'.sig_field_ref.id <= Len(writer.objs) =>
                ~FilledIn(writer.objs, sp'.sig_field_ref.id)
        /\ Get(writer'.objs[sp'.sig_field_ref.id], "/V") = sp'.sig_obj_ref

\* C20: across any sequence of sign_pdf calls on a document (named or
\* auto-picked field, flat or nested tree), the /V entry of a signature
\* field that is already filled is never replaced: each call either sets
\* /V on a field that had none or fails.
C20_FilledNeverReplaced == [][KeepsFilled /\ FillsEmpty]_vars

\* C20 for the calls that name the field
C20_NamedNeverReplaces ==
    [][(inp.meta.field_name # NoFilter) => (KeepsFilled /\ FillsEmpty)]_vars

\* C20 for the documents whose fields are all listed in /Fields itself
C20_FlatNeverReplaces ==
    [][(\A i \in 1..Len(inp.doc.tree) : inp.doc.tree[i].parent = 0) => (KeepsFilled /\ FillsEmpty)]_vars

\* a call without a field name has put its signature in a field that was
\* filled when the call started
C20_FilledFieldOverwritten ==
    /\ pc = "staged"
    /\ inp.meta.field_name = NoFilter
    /\ ~sp.field_created
    /\ FilledIn(inp.objs0, sp.sig_field_ref.id)
    /\ Get(SigField, "/V") = sp.sig_obj_ref
    /\ Get(inp.objs0[sp.sig_field_ref.id], "/V") # sp.sig_obj_ref

\* a second call has filled a field and the field the first call filled
\* still holds the first signature
C20_SecondCallFilled ==
    /\ pc = "done"
    /\ inp.call = 2
    /\ ~FilledIn(inp.objs0, sp.sig_field_ref.id)
    /\ \E id \in 1..Len(inp.objs0) :
        /\ id > PrevObjCount(inp.doc)
        /\ FilledIn(inp.objs0, id)
        /\ Get(writer.objs[id], "/V") = Get(inp.objs0[id], "/V")

====
